---- MODULE Spec2Model ----
(***************************************************************************)
(* A model of the TsFile writer of rust-tsfile (src/src/lib.rs): the       *)
(* positioned sink WriteWrapper, the page / chunk / chunk-group writers,   *)
(* the metadata index and TsFileWriter's write and _flush.                 *)
(*                                                                         *)
(* Strings are sequences of their UTF-8 bytes, a file is the sequence of   *)
(* bytes its writer accepted.  Option<T> is a sequence of length 0 or 1.   *)
(* A HashMap kept in the writer is a sequence in its iteration order; the  *)
(* order of a HashMap built during _flush is chosen by the action.         *)
(***************************************************************************)
EXTENDS Integers, Sequences, FiniteSets, TLC

VARIABLES
    schema,                  \* the Schema given to TsFileWriter::new
    group_writers,           \* TsFileWriter.group_writers
    chunk_group_metadata,    \* TsFileWriter.chunk_group_metadata
    timeseries_metadata_map, \* TsFileWriter.timeseries_metadata_map
    file,                    \* the WriteWrapper handed to the last _flush
    calls,                   \* number of calls made on the writer so far
    flushes,                 \* number of those that were runs of _flush
    lastCall,                \* the last call: its kind, inputs and result
    offsets,                 \* meta_offset and footer_index of the last _flush
    pc                       \* "ready", or "panicked" after a panic

vars == <<schema, group_writers, chunk_group_metadata, timeseries_metadata_map,
          file, calls, flushes, lastCall, offsets, pc>>

---------------------------------------------------------------------------
(* Bounds of the model *)

\* calls (write or _flush) made on one writer
MaxCalls == 3
\* the underlying writer misbehaves on at most one of its first MaxFaultAt calls
MaxFaultAt == 4
\* samples written to the one measurement of SpecPage
MaxSamples == 22

---------------------------------------------------------------------------
(* Program constants *)

GET_MAX_DEGREE_OF_INDEX_NODE == 256

\* "TsFile"
MAGIC == <<84, 115, 70, 105, 108, 101>>
VERSION == <<3>>
\* "."
DOT == 46

\* TSDataType::INT32.serialize(), CompressionType::UNCOMPRESSED, TSEncoding::PLAIN
INT32_TAG == 1
UNCOMPRESSED_TAG == 0
PLAIN_TAG == 0

\* the bytes BloomFilter::serialize writes
BLOOM_FAKE ==
    <<31, 4, 0, 0, 0, 0, 0, 0, 0, 0, 0, 0, 0, 0, 0, 1, 0, 1, 0, 0, 8, 0, 0, 0,
      0, 0, 0, 0, 0, 0, 0, 2, 128, 2, 5>>

\* the error strings write returns
ERR_WRONG_TYPE == "wrong type!"
ERR_UNKNOWN_MEASUREMENT == "Unknown measurement id"
ERR_UNKNOWN_DEVICE == "Unable to find group writer"

\* the panic messages
PANIC_EXPECT == "write failed"
PANIC_NO_PAGE == "Unable to flush without page writer!"
PANIC_NO_OFFSET == "get_metadata called before offset is defined"
PANIC_NOT_IMPLEMENTED == "This is not yet implemented!"
PANIC_NO_CHILD == "..."

---------------------------------------------------------------------------
(* Sequences and byte encodings *)

None == <<>>
Some(x) == <<x>>
IsSome(o) == Len(o) = 1
Unwrap(o) == o[1]

Range(s) == {s[i] : i \in 1..Len(s)}

\* n.to_be_bytes() of a k-byte integer (two's complement for n < 0)
RECURSIVE BE(_, _)
BE(n, k) == IF k = 0 THEN <<>> ELSE BE(n \div 256, k - 1) \o <<n % 256>>

\* the bytes write_var_u32 emits: 7 bits per byte, low group first
RECURSIVE VarU32(_)
VarU32(n) ==
    IF n \div 128 # 0 THEN <<(n % 128) + 128>> \o VarU32(n \div 128)
    ELSE <<n % 128>>

\* s.split(".").get(0): the bytes before the first '.'
RECURSIVE SplitFirst(_)
SplitFirst(s) ==
    IF s = <<>> \/ Head(s) = DOT THEN <<>> ELSE <<Head(s)>> \o SplitFirst(Tail(s))

\* the orders in which a HashMap with key set S can be iterated
Orders(S) == {o \in [1..Cardinality(S) -> S] : \A i, j \in DOMAIN o : o[i] = o[j] => i = j}

---------------------------------------------------------------------------
(* The underlying writer T and WriteWrapper<T>                             *)
(*                                                                         *)
(* A file is [position, writer, ncalls, fault, last, labels, offered,      *)
(* rejected, sync, panic]: position and writer are WriteWrapper's fields   *)
(* (writer the bytes T accepted); ncalls counts the calls of T::write and  *)
(* fault says on which of them T misbehaves; last is the io::Result of the *)
(* last call.  History: labels (one per accepted byte: what the byte is    *)
(* part of, <<segment, device, measurement>>), offered (what the calls of  *)
(* write were for, in order, a run of calls for the same thing counted     *)
(* once), rejected (T returned Err or a short count), sync (position was   *)
(* the number of accepted bytes after every call).  panic is the message   *)
(* of the panic that unwound the call, "" when there was none.             *)
(***************************************************************************)

NoFault == [at |-> 0, kind |-> "none"]
Faults == {NoFault} \cup [at : 1..MaxFaultAt, kind : {"reject", "short"}]

\* what T::write(buf) returns on the call numbered k
Writer_write(fault, k, buf) ==
    IF fault.at = k /\ fault.kind = "reject" THEN [ok |-> FALSE, size |-> 0]
    ELSE IF fault.at = k /\ fault.kind = "short" /\ Len(buf) > 0
         THEN [ok |-> TRUE, size |-> Len(buf) - 1]
    ELSE [ok |-> TRUE, size |-> Len(buf)]

WriteWrapper_new(fault) ==
    [position |-> 0, writer |-> <<>>, ncalls |-> 0, fault |-> fault,
     last |-> [ok |-> TRUE, size |-> 0], labels |-> <<>>, offered |-> <<>>,
     rejected |-> FALSE, sync |-> TRUE, panic |-> ""]

Halted(f) == f.panic # ""

Panic(f, msg) == IF Halted(f) THEN f ELSE [f EXCEPT !.panic = msg]

\* position after a write of buf that returned r
WriteWrapper_position_Mut_count_offered(position, r, buf) == position + Len(buf)

WriteWrapper_position(position, r, buf) ==
    IF r.ok THEN position + r.size ELSE position

\* WriteWrapper::write(buf)
WriteWrapper_write(f, buf, label) ==
    IF Halted(f) THEN f
    ELSE
        LET r == Writer_write(f.fault, f.ncalls + 1, buf)
            accepted == IF r.ok THEN SubSeq(buf, 1, r.size) ELSE <<>>
            pos == WriteWrapper_position(f.position, r, buf)
            bytes == f.writer \o accepted
        IN  [f EXCEPT !.position = pos,
                      !.writer = bytes,
                      !.ncalls = f.ncalls + 1,
                      !.last = r,
                      !.labels = f.labels \o [i \in 1..Len(accepted) |-> label],
                      !.offered = IF @ # <<>> /\ @[Len(@)] = label THEN @
                                  ELSE Append(@, label),
                      !.rejected = f.rejected \/ ~r.ok \/ r.size < Len(buf),
                      !.sync = f.sync /\ pos = Len(bytes)]

\* WriteWrapper::get_position()
get_position(f) == f.position

\* Result::expect("write failed") on the result of the last write of g
expect(g) == IF ~Halted(g) /\ ~g.last.ok THEN Panic(g, PANIC_EXPECT) ELSE g

\* file.write(buf).expect("write failed")
write_expect(f, buf, label) == expect(WriteWrapper_write(f, buf, label))

\* std::io::Write::write_all(buf): write until all is accepted, stop at the
\* first Err or Ok(0); last.ok tells which.  write_all_rest is the loop body
\* after the write that gave g.
RECURSIVE write_all(_, _, _)
RECURSIVE write_all_rest(_, _, _)
write_all(f, buf, label) ==
    IF Halted(f) THEN f
    ELSE IF buf = <<>> THEN [f EXCEPT !.last = [ok |-> TRUE, size |-> 0]]
    ELSE write_all_rest(WriteWrapper_write(f, buf, label), buf, label)

write_all_rest(g, buf, label) ==
    IF ~g.last.ok THEN g
    ELSE IF g.last.size = 0 THEN [g EXCEPT !.last = [ok |-> FALSE, size |-> 0]]
    ELSE write_all(g, SubSeq(buf, g.last.size + 1, Len(buf)), label)

\* write_var_u32(n, file): one byte per write, the results dropped
RECURSIVE write_bytes(_, _, _)
write_bytes(f, buf, label) ==
    IF buf = <<>> THEN f
    ELSE write_bytes(WriteWrapper_write(f, <<Head(buf)>>, label), Tail(buf), label)

write_var_u32(n, f, label) == write_bytes(f, VarU32(n), label)

\* write_str(file, s)
write_str(f, s, label) ==
    WriteWrapper_write(write_expect(f, <<((Len(s) % 256) + 2) % 256>>, label), s, label)

---------------------------------------------------------------------------
(* Values, statistics, encoders and the page writer *)

\* IoTDBValue
INT(v) == [kind |-> "INT", v |-> v]
FLOAT(v) == [kind |-> "FLOAT", v |-> v]
DOUBLE(v) == [kind |-> "DOUBLE", v |-> v]

\* StatisticsStruct::<i32>::new()
Statistics_new ==
    [count |-> 0, start_time |-> 0, end_time |-> 0, min_value |-> 0,
     max_value |-> 0, first_value |-> 0, last_value |-> 0, sum_value |-> 0]

\* Statistics::update(timestamp, value)
Statistics_update(s, timestamp, value) ==
    [count |-> s.count + 1,
     start_time |-> IF s.count = 0 THEN timestamp ELSE s.start_time,
     end_time |-> timestamp,
     min_value |-> IF s.count = 0 \/ value < s.min_value THEN value ELSE s.min_value,
     max_value |-> IF s.count = 0 \/ value > s.max_value THEN value ELSE s.max_value,
     first_value |-> IF s.count = 0 THEN value ELSE s.first_value,
     last_value |-> value,
     sum_value |-> s.sum_value + value]

\* Statistics::merge(other)
Statistics_merge_Mut_first_of_self(s, o) ==
    IF o.count = 0 THEN s
    ELSE IF s.count = 0 THEN o
    ELSE
        [count |-> s.count + o.count,
         start_time |-> IF o.start_time < s.start_time THEN o.start_time ELSE s.start_time,
         end_time |-> IF o.end_time > s.end_time THEN o.end_time ELSE s.end_time,
         min_value |-> IF o.min_value < s.min_value THEN o.min_value ELSE s.min_value,
         max_value |-> IF o.max_value > s.max_value THEN o.max_value ELSE s.max_value,
         first_value |-> s.first_value,
         last_value |-> IF o.end_time > s.end_time THEN o.last_value ELSE s.last_value,
         sum_value |-> s.sum_value + o.sum_value]

Statistics_merge_Mut_no_empty_case(s, o) ==
    [count |-> s.count + o.count,
     start_time |-> IF o.start_time < s.start_time THEN o.start_time ELSE s.start_time,
     end_time |-> IF o.end_time > s.end_time THEN o.end_time ELSE s.end_time,
     min_value |-> IF o.min_value < s.min_value THEN o.min_value ELSE s.min_value,
     max_value |-> IF o.max_value > s.max_value THEN o.max_value ELSE s.max_value,
     first_value |-> IF o.start_time < s.start_time THEN o.first_value ELSE s.first_value,
     last_value |-> IF o.end_time > s.end_time THEN o.last_value ELSE s.last_value,
     sum_value |-> s.sum_value + o.sum_value]

Statistics_merge(s, o) ==
    IF o.count = 0 THEN s
    ELSE IF s.count = 0 THEN o
    ELSE
        [count |-> s.count + o.count,
         start_time |-> IF o.start_time < s.start_time THEN o.start_time ELSE s.start_time,
         end_time |-> IF o.end_time > s.end_time THEN o.end_time ELSE s.end_time,
         min_value |-> IF o.min_value < s.min_value THEN o.min_value ELSE s.min_value,
         max_value |-> IF o.max_value > s.max_value THEN o.max_value ELSE s.max_value,
         first_value |-> IF o.start_time < s.start_time THEN o.first_value ELSE s.first_value,
         last_value |-> IF o.end_time > s.end_time THEN o.last_value ELSE s.last_value,
         sum_value |-> s.sum_value + o.sum_value]

\* the bytes Statistics::serialize writes
Statistics_bytes(s) ==
    VarU32(s.count) \o BE(s.start_time, 8) \o BE(s.end_time, 8)
    \o BE(s.min_value, 4) \o BE(s.max_value, 4)
    \o BE(s.first_value, 4) \o BE(s.last_value, 4) \o BE(s.sum_value, 8)

\* TimeEncoder::serialize: the timestamps, 8 bytes each
RECURSIVE TimeEncoder_bytes(_)
TimeEncoder_bytes(ts) ==
    IF ts = <<>> THEN <<>> ELSE BE(Head(ts), 8) \o TimeEncoder_bytes(Tail(ts))

\* PlainInt32Encoder::serialize: the values, 4 bytes each
RECURSIVE PlainInt32Encoder_bytes(_)
PlainInt32Encoder_bytes(vs) ==
    IF vs = <<>> THEN <<>> ELSE BE(Head(vs), 4) \o PlainInt32Encoder_bytes(Tail(vs))

\* PageWriter::new()
PageWriter_new == [time_encoder |-> <<>>, value_encoder |-> <<>>, buffer |-> <<>>]

\* PageWriter::write(timestamp, value)
PageWriter_write(pw, timestamp, value) ==
    [pw EXCEPT !.time_encoder = Append(@, timestamp),
               !.value_encoder = Append(@, value)]

\* PageWriter::prepare_buffer(): appends to self.buffer
PageWriter_prepare_buffer(pw) ==
    LET time_buffer == TimeEncoder_bytes(pw.time_encoder)
    IN  [pw EXCEPT !.buffer = @ \o VarU32(Len(time_buffer)) \o time_buffer
                                \o PlainInt32Encoder_bytes(pw.value_encoder)]

---------------------------------------------------------------------------
(* ChunkWriter<i32> *)

\* ChunkWriter::new
ChunkWriter_new(measurement_id) ==
    [measurement_id |-> measurement_id, data_type |-> INT32_TAG,
     compression |-> UNCOMPRESSED_TAG, encoding |-> PLAIN_TAG,
     current_page_writer |-> None, offset_of_chunk_header |-> None,
     statistics |-> Statistics_new]

\* ChunkWriter<i32>::write: [cw, result]
ChunkWriter_write(cw, timestamp, value) ==
    IF value.kind # "INT" THEN [cw |-> cw, result |-> ERR_WRONG_TYPE]
    ELSE
        LET page == IF IsSome(cw.current_page_writer)
                    THEN Unwrap(cw.current_page_writer) ELSE PageWriter_new
        IN  [cw |-> [cw EXCEPT
                        !.statistics = Statistics_update(@, timestamp, value.v),
                        !.current_page_writer =
                            Some(PageWriter_write(page, timestamp, value.v))],
             result |-> "Ok"]

\* `page_writer.buffer.len() as u8`
buffer_size(len) == len % 256

\* the position recorded as offset_of_chunk_header: the one before the marker
chunk_header_offset_Mut_after_marker(f) == get_position(f) + 1

chunk_header_offset(f) == get_position(f)

\* ChunkWriter<i32>::serialize(file) of the chunk writer cw of device dev:
\* [f, cw].  ChunkWriter_serialize_page is the part after prepare_buffer, with
\* page_writer the page writer whose buffer is prepared.
ChunkWriter_serialize_page(f, cw, dev, page_writer) ==
        LET id == cw.measurement_id
            uncompressed_bytes == buffer_size(Len(page_writer.buffer))
            compressed_bytes == uncompressed_bytes
            page_buffer == VarU32(uncompressed_bytes) \o VarU32(compressed_bytes)
                           \o page_writer.buffer
            offset == chunk_header_offset(f)
            f1 == write_expect(f, <<5>>, <<"chunk_marker", dev, id>>)
            f2 == write_str(f1, id, <<"chunk_id", dev, id>>)
            f3 == write_var_u32(Len(page_buffer), f2, <<"chunk_data_length", dev, id>>)
            f4 == write_expect(f3, <<cw.data_type>>, <<"chunk_tags", dev, id>>)
            f5 == write_expect(f4, <<cw.compression>>, <<"chunk_tags", dev, id>>)
            f6 == write_expect(f5, <<cw.encoding>>, <<"chunk_tags", dev, id>>)
            f7 == write_all(f6, page_buffer, <<"chunk_page", dev, id>>)
        IN  [f |-> f7,
             cw |-> [cw EXCEPT !.current_page_writer = Some(page_writer),
                               !.offset_of_chunk_header = Some(offset)]]

ChunkWriter_serialize(f, cw, dev) ==
    IF Halted(f) THEN [f |-> f, cw |-> cw]
    ELSE IF ~IsSome(cw.current_page_writer)
    THEN [f |-> Panic(f, PANIC_NO_PAGE), cw |-> cw]
    ELSE ChunkWriter_serialize_page(
             f, cw, dev, PageWriter_prepare_buffer(Unwrap(cw.current_page_writer)))

\* ChunkWriter<i32>::get_metadata(): Some(ChunkMetadata), None for the panic
ChunkWriter_get_metadata(cw) ==
    IF ~IsSome(cw.offset_of_chunk_header) THEN None
    ELSE Some([measurement_id |-> cw.measurement_id,
               data_type |-> cw.data_type,
               mask |-> 0,
               offset_of_chunk_header |-> Unwrap(cw.offset_of_chunk_header),
               statistics |-> cw.statistics])

---------------------------------------------------------------------------
(* GroupWriter *)

\* the index of measurement_id in chunk_writers, 0 when it has none
RECURSIVE ChunkWriterIndex(_, _, _)
ChunkWriterIndex(chunk_writers, measurement_id, i) ==
    IF i > Len(chunk_writers) THEN 0
    ELSE IF chunk_writers[i].measurement_id = measurement_id THEN i
    ELSE ChunkWriterIndex(chunk_writers, measurement_id, i + 1)

\* what GroupWriter::write returns when the chunk writer returned r
GroupWriter_write_result(r) == "Ok"

\* what GroupWriter::write returns when it has no such chunk writer
GroupWriter_write_missing_Mut_ok == "Ok"

GroupWriter_write_missing == ERR_UNKNOWN_MEASUREMENT

\* GroupWriter::write: [gw, result]
GroupWriter_write(gw, measurement_id, timestamp, value) ==
    LET i == ChunkWriterIndex(gw.chunk_writers, measurement_id, 1)
    IN  IF i = 0 THEN [gw |-> gw, result |-> GroupWriter_write_missing]
        ELSE
            LET r == ChunkWriter_write(gw.chunk_writers[i], timestamp, value)
            IN  [gw |-> [gw EXCEPT !.chunk_writers[i] = r.cw],
                 result |-> GroupWriter_write_result(r.result)]

\* the loop of GroupWriter::serialize over chunk_writers, from index i: [f, cws]
RECURSIVE serialize_chunk_writers(_, _, _, _)
RECURSIVE serialize_chunk_writers_next(_, _, _, _)
serialize_chunk_writers(f, cws, dev, i) ==
    IF i > Len(cws) THEN [f |-> f, cws |-> cws]
    ELSE serialize_chunk_writers_next(ChunkWriter_serialize(f, cws[i], dev), cws, dev, i)

\* r is what serialize gave for the chunk writer i
serialize_chunk_writers_next(r, cws, dev, i) ==
    serialize_chunk_writers(r.f, [cws EXCEPT ![i] = r.cw], dev, i + 1)

\* the group writer gw with the chunk writers r.cws, and the file r.f
GroupWriter_serialized(r, gw) == [f |-> r.f, gw |-> [gw EXCEPT !.chunk_writers = r.cws]]

\* GroupWriter::serialize(file): [f, gw]
GroupWriter_serialize(f, gw) ==
    LET dev == gw.path
        f1 == WriteWrapper_write(f, <<0>>, <<"group_marker", dev, <<>>>>)
        f2 == write_str(f1, dev, <<"group_path", dev, <<>>>>)
    IN  GroupWriter_serialized(serialize_chunk_writers(f2, gw.chunk_writers, dev, 1), gw)

\* GroupWriter::get_metadata(): Some(ChunkGroupMetadata), None for the panic
GroupWriter_get_metadata(gw) ==
    LET ms == [i \in 1..Len(gw.chunk_writers) |->
                  ChunkWriter_get_metadata(gw.chunk_writers[i])]
    IN  IF \E i \in DOMAIN ms : ~IsSome(ms[i]) THEN None
        ELSE Some([device_id |-> gw.path,
                   chunk_metadata |-> [i \in DOMAIN ms |-> Unwrap(ms[i])]])

---------------------------------------------------------------------------
(* TimeSeriesMetadata and MetadataIndexNode *)

\* MetadataIndexNodeType::serialize
NodeTypeByte(node_type) ==
    CASE node_type = "LeafMeasurement" -> 3
      [] node_type = "InternalMeasurement" -> 2
      [] node_type = "LeafDevice" -> 1

\* MetadataIndexNode::new(node_type)
MetadataIndexNode_new(node_type) ==
    [children |-> <<>>, end_offset |-> 0, node_type |-> node_type]

\* MetadataIndexNode::is_full()
is_full(node) == Len(node.children) >= GET_MAX_DEGREE_OF_INDEX_NODE

\* the loop of MetadataIndexNode::serialize over children, from index i
RECURSIVE serialize_entries(_, _, _, _)
serialize_entries(f, children, i, label) ==
    IF i > Len(children) \/ Halted(f) THEN f
    ELSE
        LET f1 == write_str(f, children[i].name, label)
            f2 == WriteWrapper_write(f1, BE(children[i].offset, 8), label)
        IN  serialize_entries(f2, children, i + 1, label)

\* MetadataIndexNode::serialize(file)
MetadataIndexNode_serialize(f, node, label) ==
    LET f1 == write_var_u32(Len(node.children), f, label)
        f2 == serialize_entries(f1, node.children, 1, label)
        f3 == WriteWrapper_write(f2, BE(node.end_offset, 8), label)
    IN  WriteWrapper_write(f3, <<NodeTypeByte(node.node_type)>>, label)

\* TimeSeriesMetadata::serialize(file)
TimeSeriesMetadata_serialize(f, tsm, label) ==
    LET f1 == write_all(f, <<tsm.time_series_metadata_type>>, label)
        f2 == write_str(f1, tsm.measurement_id, label)
        f3 == write_all(f2, <<tsm.data_type>>, label)
        f4 == write_var_u32(tsm.chunk_meta_data_list_data_size, f3, label)
        f5 == write_all(f4, Statistics_bytes(tsm.statistics), label)
    IN  write_all(f5, tsm.buffer, label)

\* MetadataIndexNode::add_current_index_node_to_queue: the queue
add_current_index_node_to_queue(current_index_node, queue, f) ==
    Append(queue, [current_index_node EXCEPT !.end_offset = get_position(f)])

\* the for loop of generate_root_node: i of queue_size nodes are done;
\* [queue, current, panic]
RECURSIVE root_node_loop(_, _, _, _, _)
root_node_loop(queue, current, f, i, queue_size) ==
    IF i >= queue_size THEN [queue |-> queue, current |-> current, panic |-> FALSE]
    ELSE IF queue = <<>> \/ Head(queue).children = <<>>
    THEN [queue |-> queue, current |-> current, panic |-> TRUE]
    ELSE
        LET metadata_index_node == Head(queue)
            name == metadata_index_node.children[1].name
            q1 == Tail(queue)
            q2 == IF is_full(current)
                  THEN Append(q1, [current EXCEPT !.end_offset = get_position(f)])
                  ELSE q1
            c1 == [current EXCEPT !.children =
                      Append(@, [name |-> name, offset |-> get_position(f)])]
        IN  root_node_loop(q2, c1, f, i + 1, queue_size)

\* MetadataIndexNode::generate_root_node: Some(node), None for a panic
RECURSIVE generate_root_node(_, _, _)
generate_root_node(queue, f, node_type) ==
    IF Len(queue) = 1 THEN Some(queue[1])
    ELSE
        LET r == root_node_loop(queue, MetadataIndexNode_new(node_type), f, 0, Len(queue))
        IN  IF r.panic THEN None
            ELSE generate_root_node(
                     add_current_index_node_to_queue(r.current, r.queue, f), f, node_type)

\* the loop of construct_metadata_index over one device's list_metadata, from
\* index i (0-based): [f, queue, current]
RECURSIVE leaf_loop(_, _, _, _, _, _)
leaf_loop(f, queue, current, list_metadata, i, device) ==
    IF i >= Len(list_metadata) THEN [f |-> f, queue |-> queue, current |-> current]
    ELSE
        LET tsm == list_metadata[i + 1]
            full1 == i % GET_MAX_DEGREE_OF_INDEX_NODE = 0 /\ is_full(current)
            q1 == IF full1 THEN add_current_index_node_to_queue(current, queue, f) ELSE queue
            c1 == IF full1 THEN MetadataIndexNode_new("LeafMeasurement") ELSE current
            full2 == is_full(c1)
            q2 == IF full2 THEN add_current_index_node_to_queue(c1, q1, f) ELSE q1
            c2 == IF full2 THEN MetadataIndexNode_new("LeafMeasurement") ELSE c1
            c3 == [c2 EXCEPT !.children =
                      Append(@, [name |-> tsm.measurement_id, offset |-> get_position(f)])]
            f1 == TimeSeriesMetadata_serialize(f, tsm, <<"tsmeta", device, tsm.measurement_id>>)
        IN  leaf_loop(f1, q2, c3, list_metadata, i + 1, device)

\* the first loop of construct_metadata_index, over the devices of
\* device_timeseries_metadata_map in the order `order`, from index i:
\* [f, map] with map the device_metadata_index_map
RECURSIVE device_loop(_, _, _, _, _)
RECURSIVE device_loop_root(_, _, _, _, _, _)
RECURSIVE device_loop_next(_, _, _, _, _, _)
device_loop(f, tsmm, order, i, map) ==
    IF i > Len(order) \/ Halted(f) THEN [f |-> f, map |-> map]
    ELSE IF tsmm[order[i]] = <<>> THEN device_loop(f, tsmm, order, i + 1, map)
    ELSE device_loop_root(
             leaf_loop(f, <<>>, MetadataIndexNode_new("LeafMeasurement"),
                       tsmm[order[i]], 0, order[i]),
             f, tsmm, order, i, map)

\* r is what the loop over the device's list_metadata gave
device_loop_root(r, f, tsmm, order, i, map) ==
    device_loop_next(
        generate_root_node(add_current_index_node_to_queue(r.current, r.queue, r.f),
                           r.f, "InternalMeasurement"),
        r.f, tsmm, order, i, map)

\* root is what generate_root_node gave for the device
device_loop_next(root, f, tsmm, order, i, map) ==
    IF ~IsSome(root) THEN [f |-> Panic(f, PANIC_NO_CHILD), map |-> map]
    ELSE device_loop(f, tsmm, order, i + 1, (order[i] :> Unwrap(root)) @@ map)

\* the loop of construct_metadata_index over device_metadata_index_map in the
\* order `order`, from index i: [f, node]
RECURSIVE leaf_device_loop(_, _, _, _, _)
leaf_device_loop(f, map, order, i, node) ==
    IF i > Len(order) \/ Halted(f) THEN [f |-> f, node |-> node]
    ELSE
        LET s == order[i]
            n1 == [node EXCEPT !.children =
                      Append(@, [name |-> s, offset |-> get_position(f)])]
            f1 == MetadataIndexNode_serialize(f, map[s], <<"index_node", s, <<>>>>)
        IN  leaf_device_loop(f1, map, order, i + 1, n1)

\* MetadataIndexNode::construct_metadata_index: [f, node]; order1 and order2
\* are the iteration orders of the two maps it iterates
\* the LeafDevice node l.node with its end_offset, and the file l.f
leaf_device_node(l) == [f |-> l.f, node |-> [l.node EXCEPT !.end_offset = get_position(l.f)]]

\* the part of construct_metadata_index after its first loop, which gave r
construct_device_index(r, order2) ==
    IF Halted(r.f) THEN [f |-> r.f, node |-> MetadataIndexNode_new("LeafDevice")]
    ELSE IF Cardinality(DOMAIN r.map) <= GET_MAX_DEGREE_OF_INDEX_NODE
    THEN leaf_device_node(
             leaf_device_loop(r.f, r.map,
                              SelectSeq(order2, LAMBDA s : s \in DOMAIN r.map), 1,
                              MetadataIndexNode_new("LeafDevice")))
    ELSE [f |-> Panic(r.f, PANIC_NOT_IMPLEMENTED),
          node |-> MetadataIndexNode_new("LeafDevice")]

construct_metadata_index(f, tsmm, order1, order2) ==
    construct_device_index(device_loop(f, tsmm, order1, 1, <<>>), order2)

---------------------------------------------------------------------------
(* TsFileWriter *)

\* the index of the group writer of device in group_writers, 0 for none
RECURSIVE GroupWriterIndex(_, _, _)
GroupWriterIndex(gws, device, i) ==
    IF i > Len(gws) THEN 0
    ELSE IF gws[i].path = device THEN i
    ELSE GroupWriterIndex(gws, device, i + 1)

\* what TsFileWriter::write returns when it has no such group writer
TsFileWriter_write_missing == ERR_UNKNOWN_DEVICE

\* TsFileWriter::write: [gws, result]
TsFileWriter_write(gws, device, measurement_id, timestamp, value) ==
    LET i == GroupWriterIndex(gws, device, 1)
    IN  IF i = 0 THEN [gws |-> gws, result |-> TsFileWriter_write_missing]
        ELSE
            LET r == GroupWriter_write(gws[i], measurement_id, timestamp, value)
            IN  [gws |-> [gws EXCEPT ![i] = r.gw], result |-> r.result]

\* TsFileWriter::new: one group writer per device, one chunk writer per
\* measurement; sch lists the devices and their measurements in the order in
\* which the HashMaps built from the schema iterate
TsFileWriter_new(sch) ==
    [d \in 1..Len(sch) |->
        [path |-> sch[d].path,
         chunk_writers |-> [m \in 1..Len(sch[d].measurements) |->
                               ChunkWriter_new(sch[d].measurements[m])]]]

\* the loop of _flush over group_writers, from index i: [f, gws]
RECURSIVE serialize_group_writers(_, _, _)
RECURSIVE serialize_group_writers_next(_, _, _)
serialize_group_writers(f, gws, i) ==
    IF i > Len(gws) THEN [f |-> f, gws |-> gws]
    ELSE serialize_group_writers_next(GroupWriter_serialize(f, gws[i]), gws, i)

\* r is what serialize gave for the group writer i
serialize_group_writers_next(r, gws, i) ==
    serialize_group_writers(r.f, [gws EXCEPT ![i] = r.gw], i + 1)

\* format!("{}.{}", device_id, measurement_id)
PathOf(device_id, measurement_id) == device_id \o <<DOT>> \o measurement_id

\* chunk_metadata_map of _flush: path -> the ChunkMetadata pushed for it, in
\* the order of chunk_group_metadata
RECURSIVE chunk_metadata_map_loop(_, _, _, _)
chunk_metadata_map_loop(cgm, g, c, map) ==
    IF g > Len(cgm) THEN map
    ELSE IF c > Len(cgm[g].chunk_metadata) THEN chunk_metadata_map_loop(cgm, g + 1, 1, map)
    ELSE
        LET cm == cgm[g].chunk_metadata[c]
            path == PathOf(cgm[g].device_id, cm.measurement_id)
            m1 == IF path \in DOMAIN map THEN [map EXCEPT ![path] = Append(@, cm)]
                  ELSE (path :> <<cm>>) @@ map
        IN  chunk_metadata_map_loop(cgm, g, c + 1, m1)

\* the inner loop of flush_metadata_index over the ChunkMetadata of one path,
\* from index i: [buffer, statistics]
RECURSIVE merge_loop(_, _, _, _, _, _)
merge_loop(metadata, i, data_type, serialize_statistic, buffer, statistics) ==
    IF i > Len(metadata) THEN [buffer |-> buffer, statistics |-> statistics]
    ELSE IF metadata[i].data_type # data_type
    THEN merge_loop(metadata, i + 1, data_type, serialize_statistic, buffer, statistics)
    ELSE
        LET m == metadata[i]
            b1 == buffer \o BE(m.offset_of_chunk_header, 8)
                  \o (IF serialize_statistic THEN Statistics_bytes(m.statistics) ELSE <<>>)
        IN  merge_loop(metadata, i + 1, data_type, serialize_statistic, b1,
                       Statistics_merge(statistics, m.statistics))

\* the loop of flush_metadata_index over chunk_metadata_list in the order
\* `order`, from index i: the timeseries_metadata_map
RECURSIVE timeseries_metadata_loop(_, _, _, _)
timeseries_metadata_loop(tsmm, cmm, order, i) ==
    IF i > Len(order) THEN tsmm
    ELSE
        LET path == order[i]
            metadata == cmm[path]
            data_type == metadata[1].data_type
            serialize_statistic == Len(metadata) > 1
            r == merge_loop(metadata, 1, data_type, serialize_statistic, <<>>, Statistics_new)
            timeseries_metadata ==
                [time_series_metadata_type |-> IF serialize_statistic THEN 1 ELSE 0,
                 chunk_meta_data_list_data_size |-> Len(r.buffer),
                 measurement_id |-> metadata[1].measurement_id,
                 data_type |-> data_type,
                 statistics |-> r.statistics,
                 buffer |-> r.buffer]
            device_id == SplitFirst(path)
            t1 == IF device_id \in DOMAIN tsmm
                  THEN [tsmm EXCEPT ![device_id] = Append(@, timeseries_metadata)]
                  ELSE (device_id :> <<timeseries_metadata>>) @@ tsmm
        IN  timeseries_metadata_loop(t1, cmm, order, i + 1)

\* TsFileMetadata::serialize with metadata_index Some(node)
TsFileMetadata_serialize_Mut_offset_first(f, node, meta_offset) ==
    LET f1 == write_all(f, BE(meta_offset, 8), <<"meta_offset", <<>>, <<>>>>)
    IN  MetadataIndexNode_serialize(f1, node, <<"root_node", <<>>, <<>>>>)

TsFileMetadata_serialize(f, node, meta_offset) ==
    LET f1 == MetadataIndexNode_serialize(f, node, <<"root_node", <<>>, <<>>>>)
    IN  write_all(f1, BE(meta_offset, 8), <<"meta_offset", <<>>, <<>>>>)

\* BloomFilter::serialize
BloomFilter_serialize(f) == write_all(f, BLOOM_FAKE, <<"bloom", <<>>, <<>>>>)

\* what _flush returns once it has written the trailing magic
flush_result(f) == "Ok"

\* (file.get_position() - footer_index) as u32
size_of_footer_Mut_from_meta_offset(position, footer_index, meta_offset) ==
    position - meta_offset

size_of_footer(position, footer_index, meta_offset) == position - footer_index

\* TsFileWriter::_flush(file) on the writer w = [group_writers,
\* chunk_group_metadata, timeseries_metadata_map]; order0, order1, order2 are
\* the iteration orders of chunk_metadata_map, timeseries_metadata_map and
\* device_metadata_index_map (keys they do not hold are skipped).  It gives
\* [f, group_writers, chunk_group_metadata, timeseries_metadata_map,
\*  meta_offset, footer_index, result], and is written as its parts in turn:
\*
\* flush_groups: the header, the group writers, and their metadata (metas).
flush_metas(g) ==
    [f |-> g.f, gws |-> g.gws,
     metas |-> [i \in 1..Len(g.gws) |-> GroupWriter_get_metadata(g.gws[i])]]

flush_groups(w, file0) ==
    LET f1 == write_expect(file0, MAGIC, <<"magic", <<>>, <<>>>>)
        f2 == write_expect(f1, VERSION, <<"version", <<>>, <<>>>>)
    IN  flush_metas(serialize_group_writers(f2, w.group_writers, 1))

\* flush_footer: from footer_index to the footer size; c is what
\* construct_metadata_index gave.
write_size_of_footer(f, footer_index, meta_offset) ==
    write_all(f, BE(size_of_footer(get_position(f), footer_index, meta_offset), 4),
              <<"footer_size", <<>>, <<>>>>)

flush_footer(c, meta_offset) ==
    LET footer_index == get_position(c.f)
        f6 == TsFileMetadata_serialize(c.f, c.node, meta_offset)
        f7 == BloomFilter_serialize(f6)
    IN  [f |-> write_size_of_footer(f7, footer_index, meta_offset),
         footer_index |-> footer_index]

\* flush_return: what _flush leaves and returns, f being the file at its end
flush_return(f, gws, cgm, tsmm, meta_offset, footer_index) ==
    [f |-> f, group_writers |-> gws, chunk_group_metadata |-> cgm,
     timeseries_metadata_map |-> tsmm,
     meta_offset |-> meta_offset, footer_index |-> footer_index,
     result |-> IF Halted(f) THEN "panic" ELSE flush_result(f)]

\* flush_end: the trailing magic; e is what flush_footer gave
flush_end(e, gws, cgm, tsmm, meta_offset) ==
    flush_return(write_all(e.f, MAGIC, <<"tail_magic", <<>>, <<>>>>),
                 gws, cgm, tsmm, meta_offset, e.footer_index)

\* flush_index: from meta_offset on; f is the file after the chunk groups
flush_index(f, gws, cgm, tsmm, order1, order2) ==
    LET meta_offset == get_position(f)
        f5 == write_all(f, <<2>>, <<"meta_marker", <<>>, <<>>>>)
        keys1 == SelectSeq(order1, LAMBDA d : d \in DOMAIN tsmm)
    IN  flush_end(flush_footer(construct_metadata_index(f5, tsmm, keys1, order2),
                               meta_offset),
                  gws, cgm, tsmm, meta_offset)

\* flush_metadata_index up to its call of construct_metadata_index: the
\* timeseries_metadata_map
flush_timeseries_metadata(tsmm, chunk_metadata_map, order0) ==
    timeseries_metadata_loop(
        tsmm, chunk_metadata_map,
        SelectSeq(order0, LAMBDA p : p \in DOMAIN chunk_metadata_map), 1)

\* flush_metadata: chunk_group_metadata and chunk_metadata_map; g is what
\* flush_groups gave
flush_chunk_metadata(f, gws, cgm, w, order0, order1, order2) ==
    flush_index(f, gws, cgm,
                flush_timeseries_metadata(w.timeseries_metadata_map,
                                          chunk_metadata_map_loop(cgm, 1, 1, <<>>),
                                          order0),
                order1, order2)

flush_metadata(g, w, order0, order1, order2) ==
    IF Halted(g.f)
    THEN flush_return(g.f, g.gws, w.chunk_group_metadata,
                      w.timeseries_metadata_map, 0, 0)
    ELSE IF \E i \in DOMAIN g.metas : ~IsSome(g.metas[i])
    THEN flush_return(Panic(g.f, PANIC_NO_OFFSET), g.gws, w.chunk_group_metadata,
                      w.timeseries_metadata_map, 0, 0)
    ELSE flush_chunk_metadata(g.f, g.gws,
                              [i \in DOMAIN g.metas |-> Unwrap(g.metas[i])],
                              w, order0, order1, order2)

TsFileWriter_flush(w, file0, order0, order1, order2) ==
    flush_metadata(flush_groups(w, file0), w, order0, order1, order2)

---------------------------------------------------------------------------
(* The inputs *)

\* "d1", "d2", "s1", "s2"
d1 == <<100, 49>>
d2 == <<100, 50>>
s1 == <<115, 49>>
s2 == <<115, 50>>

Device(path, measurements) == [path |-> path, measurements |-> measurements]

\* the schemas, devices and measurements in insertion order
Schemas ==
    { <<Device(d1, <<s1>>)>>,
      <<Device(d1, <<s1, s2>>)>>,
      <<Device(d1, <<s1>>), Device(d2, <<s1>>)>> }

Devices == {d1, d2}
Measurements == {s1, s2}
\* the caller's clock: timestamps are supplied in order
Timestamps == {calls + 1}
Values == {INT(13), INT(14), FLOAT(1), DOUBLE(1)}

\* the sequences with the elements of seq in any order
Reorderings(seq) ==
    {[i \in 1..Len(seq) |-> seq[o[i]]] : o \in Orders(1..Len(seq))}

\* sch with the measurements of each device in any order
RECURSIVE MeasurementOrders(_)
MeasurementOrders(sch) ==
    IF sch = <<>> THEN {<<>>}
    ELSE {<<Device(Head(sch).path, ms)>> \o rest :
             ms \in Reorderings(Head(sch).measurements),
             rest \in MeasurementOrders(Tail(sch))}

\* the orders in which the HashMaps built from sch can iterate
IterationOrders(sch) == UNION {Reorderings(t) : t \in MeasurementOrders(sch)}

\* the keys of chunk_metadata_map: the paths of the writer's chunk writers
PathsOf(gws) ==
    UNION {{PathOf(gws[i].path, gws[i].chunk_writers[j].measurement_id) :
               j \in 1..Len(gws[i].chunk_writers)} : i \in 1..Len(gws)}

\* the keys of timeseries_metadata_map after flush_metadata_index
DeviceIdsOf(tsmm, gws) == DOMAIN tsmm \cup {SplitFirst(p) : p \in PathsOf(gws)}

---------------------------------------------------------------------------
(* The state machine *)

NoCall == [op |-> "new", device |-> <<>>, measurement_id |-> <<>>,
           kind |-> "", result |-> "Ok"]

Init ==
    /\ schema \in Schemas
    /\ \E sch \in IterationOrders(schema) : group_writers = TsFileWriter_new(sch)
    /\ chunk_group_metadata = <<>>
    /\ timeseries_metadata_map = <<>>
    /\ file = WriteWrapper_new(NoFault)
    /\ calls = 0
    /\ flushes = 0
    /\ lastCall = NoCall
    /\ offsets = [meta_offset |-> 0, footer_index |-> 0]
    /\ pc = "ready"

\* the state after a write that gave r
Written(r, device, measurement_id, value) ==
    /\ group_writers' = r.gws
    /\ lastCall' = [op |-> "write", device |-> device,
                    measurement_id |-> measurement_id,
                    kind |-> value.kind, result |-> r.result]
    /\ calls' = calls + 1
    /\ UNCHANGED <<schema, chunk_group_metadata, timeseries_metadata_map, file,
                   flushes, offsets, pc>>

\* TsFileWriter::write(device, measurement_id, timestamp, value)
Write(device, measurement_id, timestamp, value) ==
    /\ pc = "ready"
    /\ calls < MaxCalls
    /\ Written(TsFileWriter_write(group_writers, device, measurement_id, timestamp, value),
               device, measurement_id, value)

\* the state after a run of _flush that gave r
Flushed(r) ==
    /\ group_writers' = r.group_writers
    /\ chunk_group_metadata' = r.chunk_group_metadata
    /\ timeseries_metadata_map' = r.timeseries_metadata_map
    /\ file' = r.f
    /\ offsets' = [meta_offset |-> r.meta_offset, footer_index |-> r.footer_index]
    /\ lastCall' = [op |-> "flush", device |-> <<>>, measurement_id |-> <<>>,
                    kind |-> "", result |-> r.result]
    /\ pc' = IF r.result = "panic" THEN "panicked" ELSE "ready"
    /\ calls' = calls + 1
    /\ flushes' = flushes + 1
    /\ UNCHANGED schema

\* TsFileWriter::_flush(file) on a new WriteWrapper whose writer has `fault`
Flush(fault, order0, order1, order2) ==
    /\ pc = "ready"
    /\ calls < MaxCalls
    /\ Flushed(TsFileWriter_flush(
                   [group_writers |-> group_writers,
                    chunk_group_metadata |-> chunk_group_metadata,
                    timeseries_metadata_map |-> timeseries_metadata_map],
                   WriteWrapper_new(fault), order0, order1, order2))

Next ==
    \/ \E device \in Devices, measurement_id \in Measurements,
          timestamp \in Timestamps, value \in Values :
          Write(device, measurement_id, timestamp, value)
    \/ \E fault \in Faults,
          order0 \in Orders(PathsOf(group_writers)),
          order1 \in Orders(DeviceIdsOf(timeseries_metadata_map, group_writers)),
          order2 \in Orders(DeviceIdsOf(timeseries_metadata_map, group_writers)) :
          Flush(fault, order0, order1, order2)

Spec == Init /\ [][Next]_vars

---------------------------------------------------------------------------
(* A writer of the single measurement d1.s1 that takes up to MaxSamples    *)
(* samples and is flushed once: its page grows past 255 bytes.             *)

InitPage ==
    /\ schema = <<Device(d1, <<s1>>)>>
    /\ group_writers = TsFileWriter_new(schema)
    /\ chunk_group_metadata = <<>>
    /\ timeseries_metadata_map = <<>>
    /\ file = WriteWrapper_new(NoFault)
    /\ calls = 0
    /\ flushes = 0
    /\ lastCall = NoCall
    /\ offsets = [meta_offset |-> 0, footer_index |-> 0]
    /\ pc = "ready"

\* TsFileWriter::write("d1", "s1", timestamp, value)
WriteSample(timestamp, value) ==
    /\ pc = "ready"
    /\ flushes = 0
    /\ calls < MaxSamples
    /\ Written(TsFileWriter_write(group_writers, d1, s1, timestamp, value), d1, s1, value)

\* TsFileWriter::_flush(file), once
FlushPage(fault, order0, order1, order2) ==
    /\ pc = "ready"
    /\ flushes = 0
    /\ Flushed(TsFileWriter_flush(
                   [group_writers |-> group_writers,
                    chunk_group_metadata |-> chunk_group_metadata,
                    timeseries_metadata_map |-> timeseries_metadata_map],
                   WriteWrapper_new(fault), order0, order1, order2))

NextPage ==
    \/ \E timestamp \in Timestamps, value \in {INT(13)} : WriteSample(timestamp, value)
    \/ \E fault \in Faults,
          order0 \in Orders(PathsOf(group_writers)),
          order1 \in Orders(DeviceIdsOf(timeseries_metadata_map, group_writers)),
          order2 \in Orders(DeviceIdsOf(timeseries_metadata_map, group_writers)) :
          FlushPage(fault, order0, order1, order2)

SpecPage == InitPage /\ [][NextPage]_vars

---------------------------------------------------------------------------
(* Properties *)

\* every run of _flush so far ran to its end and returned, and `file`,
\* chunk_group_metadata and offsets are those of the last one
Completed == flushes > 0 /\ pc = "ready"

\* the sink of the last _flush returned Err for one of the writes
SinkRejected == file.fault.kind = "reject" /\ file.ncalls >= file.fault.at

\* the step is a call of write
WriteStep == lastCall'.op = "write" /\ calls' = calls + 1

\* the schema has the device / the device has the measurement
KnownDevice(device) == \E i \in DOMAIN schema : schema[i].path = device

KnownMeasurement(device, measurement_id) ==
    \E i \in DOMAIN schema :
        /\ schema[i].path = device
        /\ measurement_id \in Range(schema[i].measurements)

\* the positions (from 1) of the file's bytes that are part of segment seg
Positions(seg) == {p \in DOMAIN file.labels : file.labels[p][1] = seg}

\* the bytes of the file from the first to the last one labelled lab
BytesLabelled(lab) ==
    LET at == {p \in DOMAIN file.labels : file.labels[p] = lab}
    IN  IF at = {} THEN <<>>
        ELSE SubSeq(file.writer,
                    CHOOSE p \in at : \A q \in at : p <= q,
                    CHOOSE p \in at : \A q \in at : p >= q)

\* the big-endian unsigned integer a reader takes from bytes
RECURSIVE FromBE(_)
FromBE(bytes) ==
    IF bytes = <<>> THEN 0
    ELSE FromBE(SubSeq(bytes, 1, Len(bytes) - 1)) * 256 + bytes[Len(bytes)]

\* the varuint a reader takes from bytes at index i, and the bytes it takes up
RECURSIVE ReadVarU32(_, _)
ReadVarU32(bytes, i) ==
    IF i > Len(bytes) THEN 0
    ELSE IF bytes[i] >= 128 THEN (bytes[i] - 128) + 128 * ReadVarU32(bytes, i + 1)
    ELSE bytes[i]

RECURSIVE VarU32Len(_, _)
VarU32Len(bytes, i) ==
    IF i > Len(bytes) THEN 0
    ELSE IF bytes[i] >= 128 THEN 1 + VarU32Len(bytes, i + 1)
    ELSE 1

\* the chunks of the last _flush: [device_id, measurement_id, offset]
Chunks ==
    {[device_id |-> chunk_group_metadata[g].device_id,
      measurement_id |-> chunk_group_metadata[g].chunk_metadata[c].measurement_id,
      offset |-> chunk_group_metadata[g].chunk_metadata[c].offset_of_chunk_header] :
        <<g, c>> \in {gc \in (DOMAIN chunk_group_metadata) \X (1..2) :
                         gc[2] \in DOMAIN chunk_group_metadata[gc[1]].chunk_metadata}}

\* C1: the position of the WriteWrapper is the number of bytes its writer
\* accepted: after every call of write, rejected and partly accepted ones
\* included (sync), and so at the end of _flush, where it is the length of the
\* emitted bytes.
C1_PositionIsAcceptedBytes ==
    /\ file.sync
    /\ get_position(file) = Len(file.writer)

\* a _flush that ran to its end although its sink rejected a write
C1_Witness ==
    /\ Completed
    /\ lastCall.op = "flush"
    /\ SinkRejected
    /\ get_position(file) > Len(MAGIC)

\* C2: the offset_of_chunk_header in the ChunkMetadata of every chunk of a
\* completed _flush is the position of that chunk's marker byte 5 in the file:
\* the marker is nowhere else, and it is there when the sink took every byte.
C2_OffsetIsMarker ==
    Completed =>
        \A ch \in Chunks :
            LET marker == <<"chunk_marker", ch.device_id, ch.measurement_id>>
                at == ch.offset + 1
            IN  /\ \A p \in DOMAIN file.labels :
                       file.labels[p] = marker => p = at /\ file.writer[p] = 5
                /\ ~file.rejected =>
                       at \in DOMAIN file.labels /\ file.labels[at] = marker

\* a completed _flush of two chunks
C2_Witness ==
    /\ Completed
    /\ ~file.rejected
    /\ Cardinality(Chunks) = 2
    /\ \E ch \in Chunks : ch.offset > Len(MAGIC) + Len(VERSION)

\* what may be offered to the sink directly after what, in a run of _flush
Follows(a, b) ==
    LET same_device == a[2] = b[2]
        same_chunk == same_device /\ a[3] = b[3]
    IN  CASE a[1] = "magic" -> b[1] = "version"
          [] a[1] = "version" -> b[1] \in {"group_marker", "meta_marker"}
          [] a[1] = "group_marker" -> b[1] = "group_path" /\ same_device
          [] a[1] = "group_path" ->
                 \/ b[1] = "chunk_marker" /\ same_device
                 \/ b[1] \in {"group_marker", "meta_marker"}
          [] a[1] = "chunk_marker" -> b[1] = "chunk_id" /\ same_chunk
          [] a[1] = "chunk_id" -> b[1] = "chunk_data_length" /\ same_chunk
          [] a[1] = "chunk_data_length" -> b[1] = "chunk_tags" /\ same_chunk
          [] a[1] = "chunk_tags" -> b[1] = "chunk_page" /\ same_chunk
          [] a[1] = "chunk_page" ->
                 \/ b[1] = "chunk_marker" /\ same_device
                 \/ b[1] \in {"group_marker", "meta_marker"}
          [] a[1] = "meta_marker" -> b[1] \in {"tsmeta", "root_node"}
          [] a[1] = "tsmeta" -> b[1] \in {"tsmeta", "index_node"}
          [] a[1] = "index_node" -> b[1] \in {"index_node", "root_node"}
          [] a[1] = "root_node" -> b[1] = "meta_offset"
          [] a[1] = "meta_offset" -> b[1] = "bloom"
          [] a[1] = "bloom" -> b[1] = "footer_size"
          [] a[1] = "footer_size" -> b[1] = "tail_magic"
          [] OTHER -> FALSE

\* C3: in every run of _flush that completes, the bytes are offered to the
\* sink in the order magic, version, the chunk groups (marker and path, then
\* the group's chunks, each as marker, id, data length, tags, page), the
\* marker 2, the TimeseriesMetadata, the index nodes, the root node, the
\* meta_offset, the bloom filter, the footer size, the magic; and a sink that
\* took every byte holds a file that begins "TsFile\x03" and ends "TsFile".
C3_OrderOfBytes ==
    (Completed /\ lastCall.op = "flush") =>
        LET o == file.offered
        IN  /\ o # <<>>
            /\ o[1][1] = "magic"
            /\ o[Len(o)][1] = "tail_magic"
            /\ \A i \in 1..(Len(o) - 1) : Follows(o[i], o[i + 1])
            /\ ~file.rejected =>
                   /\ SubSeq(file.writer, 1, 7) = MAGIC \o <<3>>
                   /\ SubSeq(file.writer, Len(file.writer) - 5, Len(file.writer)) = MAGIC
                   /\ \E p \in Positions("meta_marker") : file.writer[p] = 2

\* a completed _flush of two chunk groups to a sink that took every byte
C3_Witness ==
    /\ Completed
    /\ lastCall.op = "flush"
    /\ ~file.rejected
    /\ Len(chunk_group_metadata) = 2
    /\ Cardinality(Positions("group_marker")) = 2

\* C4: a write after a completed _flush returns an AlreadyClosed error and
\* changes no chunk writer (stated for writes that are valid otherwise).
C4_WriteAfterCloseRejected ==
    [][(/\ Completed
        /\ WriteStep
        /\ KnownMeasurement(lastCall'.device, lastCall'.measurement_id)
        /\ lastCall'.kind = "INT")
       => (lastCall'.result = "AlreadyClosed" /\ group_writers' = group_writers)]_vars

\* a write after a completed _flush that returned Ok(()) and was counted
C4_Witness ==
    /\ Completed
    /\ lastCall.op = "write"
    /\ lastCall.result = "Ok"
    /\ \E i \in DOMAIN group_writers : \E j \in DOMAIN group_writers[i].chunk_writers :
           group_writers[i].chunk_writers[j].statistics.count = 2

\* C5: a write of a value that is no INT to a measurement of the schema (all
\* are INT32) returns the type error and changes no chunk writer.
C5_TypeMismatchReturned ==
    [][(/\ WriteStep
        /\ KnownMeasurement(lastCall'.device, lastCall'.measurement_id)
        /\ lastCall'.kind # "INT")
       => (lastCall'.result = ERR_WRONG_TYPE /\ group_writers' = group_writers)]_vars

\* a write of a FLOAT to a measurement of the schema that returned Ok(())
C5_Witness ==
    /\ lastCall.op = "write"
    /\ KnownMeasurement(lastCall.device, lastCall.measurement_id)
    /\ lastCall.kind = "FLOAT"
    /\ lastCall.result = "Ok"

\* the chunk writers that have no page: <<device, measurement>>
Unwritten ==
    {<<group_writers[i].path, group_writers[i].chunk_writers[j].measurement_id>> :
        <<i, j>> \in {ij \in (DOMAIN group_writers) \X (1..2) :
                         /\ ij[2] \in DOMAIN group_writers[ij[1]].chunk_writers
                         /\ ~IsSome(group_writers[ij[1]].chunk_writers[ij[2]]
                                        .current_page_writer)}}

\* C6: a _flush (to a sink that takes every byte) of a writer with a chunk
\* writer that has no page completes normally; it writes nothing for that
\* chunk and has no ChunkMetadata for it.
C6_EmptyChunkSkipped ==
    (lastCall.op = "flush" /\ file.fault = NoFault /\ Unwritten # {}) =>
        /\ pc = "ready"
        /\ lastCall.result = "Ok"
        /\ \A u \in Unwritten :
               /\ \A p \in DOMAIN file.labels :
                      ~(file.labels[p][2] = u[1] /\ file.labels[p][3] = u[2])
               /\ \A ch \in Chunks :
                      ~(ch.device_id = u[1] /\ ch.measurement_id = u[2])

\* a _flush that panicked at a chunk writer without page
C6_Witness ==
    /\ lastCall.op = "flush"
    /\ file.fault = NoFault
    /\ Unwritten # {}
    /\ pc = "panicked"
    /\ file.panic = PANIC_NO_PAGE

\* C7: a write to a device the schema does not have returns the unknown-device
\* error, a write to a measurement its device does not have returns the
\* unknown-measurement error, and neither changes the writer.
C7_RoutingErrors ==
    [][WriteStep =>
          /\ ~KnownDevice(lastCall'.device) =>
                 /\ lastCall'.result = ERR_UNKNOWN_DEVICE
                 /\ UNCHANGED <<group_writers, chunk_group_metadata,
                                timeseries_metadata_map, file>>
          /\ (/\ KnownDevice(lastCall'.device)
              /\ ~KnownMeasurement(lastCall'.device, lastCall'.measurement_id)) =>
                 /\ lastCall'.result = ERR_UNKNOWN_MEASUREMENT
                 /\ UNCHANGED <<group_writers, chunk_group_metadata,
                                timeseries_metadata_map, file>>]_vars

\* a write to a measurement its device does not have, after a write that was
\* taken
C7_Witness ==
    /\ lastCall.op = "write"
    /\ KnownDevice(lastCall.device)
    /\ ~KnownMeasurement(lastCall.device, lastCall.measurement_id)
    /\ lastCall.result = ERR_UNKNOWN_MEASUREMENT
    /\ \E i \in DOMAIN group_writers : \E j \in DOMAIN group_writers[i].chunk_writers :
           group_writers[i].chunk_writers[j].statistics.count > 0

\* C8: a _flush whose sink rejected a write does not return Ok(()).
C8_SinkErrorReported ==
    (lastCall.op = "flush" /\ SinkRejected) => lastCall.result # "Ok"

\* a _flush that returned Ok(()) although its sink rejected a write
C8_Witness ==
    /\ lastCall.op = "flush"
    /\ SinkRejected
    /\ lastCall.result = "Ok"
    /\ file.offered[Len(file.offered)][1] = "tail_magic"

\* the page region of chunk ch in the file
PageRegion(ch) == BytesLabelled(<<"chunk_page", ch.device_id, ch.measurement_id>>)

\* C9: in the file of a completed _flush to a sink that took every byte, the
\* data length of every chunk header is the length of the page region after
\* it, and the two sizes at the start of the page region are the length of
\* the page body, the rest of the region.
C9_LengthFields ==
    (Completed /\ ~file.rejected) =>
        \A ch \in Chunks :
            LET page == PageRegion(ch)
                data_length ==
                    ReadVarU32(BytesLabelled(<<"chunk_data_length", ch.device_id,
                                               ch.measurement_id>>), 1)
                u_len == VarU32Len(page, 1)
                c_len == VarU32Len(page, 1 + u_len)
                body == Len(page) - u_len - c_len
            IN  /\ data_length = Len(page)
                /\ ReadVarU32(page, 1) = body
                /\ ReadVarU32(page, 1 + u_len) = body

\* a completed _flush of a chunk whose page region is longer than 255 bytes
C9_Witness ==
    /\ Completed
    /\ ~file.rejected
    /\ \E ch \in Chunks : Len(PageRegion(ch)) > 255 + 4

\* C10: the uint32 before the trailing magic is the number of bytes from
\* footer_index up to that uint32, and those bytes are the root node, the
\* meta_offset and the bloom filter.
C10_FooterSize ==
    (Completed /\ Cardinality(Positions("footer_size")) = 4) =>
        LET size_at == CHOOSE p \in Positions("footer_size") :
                           \A q \in Positions("footer_size") : p <= q
            footer == Positions("root_node") \cup Positions("meta_offset")
                      \cup Positions("bloom")
        IN  /\ FromBE(SubSeq(file.writer, size_at, size_at + 3))
                   = (size_at - 1) - offsets.footer_index
            /\ footer = (offsets.footer_index + 1)..(size_at - 1)

\* a completed _flush whose root node has the entries of two devices
C10_Witness ==
    /\ Completed
    /\ ~file.rejected
    /\ Cardinality(Positions("footer_size")) = 4
    /\ Cardinality(Positions("root_node")) > 21

\* the place of a device in the schema, and of a measurement in its device,
\* in insertion order
SchemaIndex(device) == CHOOSE i \in DOMAIN schema : schema[i].path = device

MeasurementIndex(device, measurement_id) ==
    CHOOSE j \in DOMAIN schema[SchemaIndex(device)].measurements :
        schema[SchemaIndex(device)].measurements[j] = measurement_id

\* the writes of segment seg, in the order they were offered to the sink
Offered(seg) == SelectSeq(file.offered, LAMBDA l : l[1] = seg)

\* C11: in every _flush that completes, the chunk groups are written in the
\* insertion order of the devices in the schema, and the chunks of a group in
\* the insertion order of the device's measurements.
C11_InsertionOrder ==
    (Completed /\ lastCall.op = "flush") =>
        LET groups == Offered("group_marker")
            chunks == Offered("chunk_marker")
        IN  /\ \A i, j \in DOMAIN groups :
                   i < j => SchemaIndex(groups[i][2]) < SchemaIndex(groups[j][2])
            /\ \A i, j \in DOMAIN chunks :
                   (i < j /\ chunks[i][2] = chunks[j][2]) =>
                       MeasurementIndex(chunks[i][2], chunks[i][3])
                           < MeasurementIndex(chunks[j][2], chunks[j][3])

\* a completed _flush that wrote the chunk of s2 before the chunk of s1
C11_Witness ==
    /\ Completed
    /\ lastCall.op = "flush"
    /\ ~file.rejected
    /\ schema = <<Device(d1, <<s1, s2>>)>>
    /\ Offered("chunk_marker") = <<<<"chunk_marker", d1, s2>>, <<"chunk_marker", d1, s1>>>>

\* ---------------------------------------------------------------------------
\* utils::write_var_u32 and utils::read_var_u32 on every width of u32.
\* A u32 is kept as its two 16-bit halves, so that the numbers from 2^31 up
\* have their place.

U32(hi, lo) == [hi |-> hi, lo |-> lo]

FromInt(n) == U32(n \div 65536, n % 65536)

\* number & 0x7F
u32_and_7F(number) == number.lo % 128

\* (number & 0xFFFFFF80) != 0
u32_has_more_Mut_FFFFFF00(number) == number.hi # 0 \/ number.lo >= 256

u32_has_more(number) == number.hi # 0 \/ number.lo >= 128

\* number >> 7
u32_shr_7_Mut_low_half_only(number) ==
    [hi |-> number.hi \div 128, lo |-> number.lo \div 128]

u32_shr_7(number) ==
    [hi |-> number.hi \div 128,
     lo |-> (number.lo \div 128) + (number.hi % 128) * 512]

\* the loop of write_var_u32; position is a u8
RECURSIVE pre_write_var_int_loop(_, _, _)
pre_write_var_int_loop(number, buffer, position) ==
    IF u32_has_more(number)
    THEN pre_write_var_int_loop(u32_shr_7(number),
                                Append(buffer, u32_and_7F(number) + 128),
                                (position + 1) % 256)
    ELSE [buffer |-> Append(buffer, u32_and_7F(number)), position |-> position]

\* write_var_u32(number, &mut buffer) on an empty buffer: the buffer after
\* the call and the position it returns
pre_write_var_int(number) == pre_write_var_int_loop(number, <<>>, 1)

\* the 7-bit groups read_var_u32 takes from the buffer: up to and including
\* the first byte without the high bit
RECURSIVE read_groups(_, _)
read_groups(buffer, i) ==
    IF i > Len(buffer) THEN <<>>
    ELSE IF buffer[i] >= 128 THEN <<buffer[i] - 128>> \o read_groups(buffer, i + 1)
    ELSE <<buffer[i]>>

\* read_var_u32(&mut buffer): group i shifted left by 7 * i, within 32 bits
read_var_u32(buffer) ==
    LET gs == read_groups(buffer, 1)
        g(i) == IF i <= Len(gs) THEN gs[i] ELSE 0
    IN  U32((g(3) \div 4) + g(4) * 32 + (g(5) % 16) * 4096,
            g(1) + g(2) * 128 + (g(3) % 4) * 16384)

\* the numbers of the tests and the numbers at the edges of each length
TestNumbers ==
    {1, 12, 123, 1234, 12345, 123456, 1234567, 12345678, 123456789, 13, 128}

Numbers ==
    {FromInt(n) : n \in TestNumbers}
    \cup {U32(hi, lo) : hi \in {0, 1, 31, 32, 4095, 4096, 32767, 32768, 65535},
                        lo \in {0, 1, 127, 128, 16383, 16384, 65535}}

InitVarint ==
    /\ schema = <<>>
    /\ group_writers = <<>>
    /\ chunk_group_metadata = <<>>
    /\ timeseries_metadata_map = <<>>
    /\ file = WriteWrapper_new(NoFault)
    /\ calls = 0
    /\ flushes = 0
    /\ lastCall = [op |-> "new"]
    /\ offsets = [meta_offset |-> 0, footer_index |-> 0]
    /\ pc = "ready"

\* write_var_u32(number, &mut result) on an empty Vec
WriteVar(number) ==
    /\ pc = "ready"
    /\ LET r == pre_write_var_int(number)
       IN  lastCall' = [op |-> "write_var_u32", number |-> number,
                        buffer |-> r.buffer, position |-> r.position]
    /\ pc' = "written"
    /\ UNCHANGED <<schema, group_writers, chunk_group_metadata,
                   timeseries_metadata_map, file, calls, flushes, offsets>>

\* read_var_u32(&mut result.as_slice()) of what was written
ReadVar ==
    /\ pc = "written"
    /\ lastCall' = [op |-> "read_var_u32", number |-> lastCall.number,
                    buffer |-> lastCall.buffer, position |-> lastCall.position,
                    result |-> read_var_u32(lastCall.buffer)]
    /\ pc' = "ready"
    /\ UNCHANGED <<schema, group_writers, chunk_group_metadata,
                   timeseries_metadata_map, file, calls, flushes, offsets>>

NextVarint ==
    \/ \E number \in Numbers : WriteVar(number)
    \/ ReadVar

SpecVarint == InitVarint /\ [][NextVarint]_vars

\* C12: read_var_u32 gives back every number that write_var_u32 wrote, and
\* write_var_u32 writes from one to five bytes.
C12_RoundTrip ==
    /\ lastCall.op \in {"write_var_u32", "read_var_u32"} =>
           Len(lastCall.buffer) \in 1..5
    /\ lastCall.op = "read_var_u32" => lastCall.result = lastCall.number

\* the number 2^32 - 1 read back from its five bytes
C12_Witness ==
    /\ lastCall.op = "read_var_u32"
    /\ lastCall.number = U32(65535, 65535)
    /\ Len(lastCall.buffer) = 5
    /\ lastCall.result = U32(65535, 65535)

\* the i-th group of seven bits of number, from the low end, i in 1..5
Group(number, i) ==
    CASE i = 1 -> number.lo % 128
      [] i = 2 -> (number.lo \div 128) % 128
      [] i = 3 -> (number.lo \div 16384) + (number.hi % 32) * 4
      [] i = 4 -> (number.hi \div 32) % 128
      [] i = 5 -> number.hi \div 4096

\* the unsigned LEB128 of number: its groups up to the last one that is not
\* zero (one group for 0), low end first, the high bit on all but the last
LEB128(number) ==
    LET used == {i \in 1..5 : Group(number, i) # 0} \cup {1}
        n == CHOOSE i \in used : \A j \in used : j <= i
    IN  [i \in 1..n |-> IF i < n THEN Group(number, i) + 128 ELSE Group(number, i)]

\* C13: write_var_u32(number) appends the unsigned LEB128 of number and
\* returns the number of bytes it appended: 13 gives [0x0D] and 1, 128 gives
\* [0x80, 0x01] and 2, 123456789 gives [0x95, 0x9A, 0xEF, 0x3A] and 4. Below
\* 2^31 the bytes are those _flush writes for the same number.
C13_WriteVarU32 ==
    lastCall.op = "write_var_u32" =>
        /\ lastCall.buffer = LEB128(lastCall.number)
        /\ lastCall.position = Len(lastCall.buffer)
        /\ lastCall.number = FromInt(13) =>
               lastCall.buffer = <<13>> /\ lastCall.position = 1
        /\ lastCall.number = FromInt(128) =>
               lastCall.buffer = <<128, 1>> /\ lastCall.position = 2
        /\ lastCall.number = FromInt(123456789) =>
               lastCall.buffer = <<149, 154, 239, 58>> /\ lastCall.position = 4
        /\ lastCall.number.hi < 32768 =>
               lastCall.buffer = VarU32(lastCall.number.hi * 65536 + lastCall.number.lo)

\* the call write_var_u32(123456789) of tests::write_var_int
C13_Witness ==
    /\ lastCall.op = "write_var_u32"
    /\ lastCall.number = FromInt(123456789)
    /\ lastCall.buffer = <<149, 154, 239, 58>>
    /\ lastCall.position = 4

\* ---------------------------------------------------------------------------
\* Statistics::merge on the statistics of runs of samples in disjoint ranges
\* of time.

MaxRun == 2

RunValues == {13, 14}

\* the k-th range of time, and the runs of samples in it: up to MaxRun
\* samples, their timestamps ascending
TimeRange(k) == ((k - 1) * MaxRun + 1)..(k * MaxRun)

Runs(k) ==
    {run \in UNION {[1..n -> TimeRange(k) \X RunValues] : n \in 0..MaxRun} :
        \A i \in 1..(Len(run) - 1) : run[i][1] < run[i + 1][1]}

\* the statistics after update(timestamp, value) for the first i samples of run
RECURSIVE StatisticsOf(_, _)
StatisticsOf(run, i) ==
    IF i = 0 THEN Statistics_new
    ELSE Statistics_update(StatisticsOf(run, i - 1), run[i][1], run[i][2])

InitMerge ==
    /\ schema = <<>>
    /\ group_writers = <<>>
    /\ chunk_group_metadata = <<>>
    /\ timeseries_metadata_map = <<>>
    /\ file = WriteWrapper_new(NoFault)
    /\ calls = 0
    /\ flushes = 0
    /\ lastCall = [op |-> "new"]
    /\ offsets = [meta_offset |-> 0, footer_index |-> 0]
    /\ pc = "ready"

\* a.merge(&b) and its like on the statistics a, b, c
Merge(a, b, c) ==
    /\ pc' = "merged"
    /\ lastCall' = [op |-> "merge", a |-> a, b |-> b, c |-> c,
                    ab |-> Statistics_merge(a, b),
                    ba |-> Statistics_merge(b, a),
                    ab_c |-> Statistics_merge(Statistics_merge(a, b), c),
                    a_bc |-> Statistics_merge(a, Statistics_merge(b, c))]
    /\ UNCHANGED <<schema, group_writers, chunk_group_metadata,
                   timeseries_metadata_map, file, calls, flushes, offsets>>

\* the statistics of the runs in the k-th range of time
StatisticsIn(k) == {StatisticsOf(run, Len(run)) : run \in Runs(k)}

NextMerge ==
    /\ pc = "ready"
    /\ \E order \in Orders(1..3) :
           \E a \in StatisticsIn(order[1]), b \in StatisticsIn(order[2]),
              c \in StatisticsIn(order[3]) :
               Merge(a, b, c)

SpecMerge == InitMerge /\ [][NextMerge]_vars

\* C14: on statistics of runs in disjoint ranges of time, merge is
\* commutative and associative, in every field: count, start and end time,
\* first and last value, min and max, sum.
C14_MergeLaws ==
    lastCall.op = "merge" =>
        /\ lastCall.ab = lastCall.ba
        /\ lastCall.ab_c = lastCall.a_bc

\* three runs of two samples, the first operand the latest in time and the
\* first values all different from the last ones
C14_Witness ==
    /\ lastCall.op = "merge"
    /\ lastCall.a.count = 2 /\ lastCall.b.count = 2 /\ lastCall.c.count = 2
    /\ lastCall.a.start_time > lastCall.b.end_time
    /\ lastCall.b.start_time > lastCall.c.end_time
    /\ lastCall.a.first_value # lastCall.b.first_value
    /\ lastCall.ab.first_value = lastCall.b.first_value
    /\ lastCall.ab_c.first_value = lastCall.c.first_value
    /\ lastCall.ab_c.last_value = lastCall.a.last_value
    /\ lastCall.ab_c.count = 6

\* ---------------------------------------------------------------------------
\* The bloom filter a reader takes from the file.

\* the bit indexes |hash(path, seed)| mod 256 of the 128-bit MurmurHash3 with
\* the seeds 5, 7, 11, 19, 31, for the paths of the schemas; those of d1.s1
\* are the bits set in the bytes BloomFilter::serialize writes
MurmurBits(path) ==
    CASE path = PathOf(d1, s1) -> {2, 112, 128, 155, 241}
      [] path = PathOf(d1, s2) -> {53, 87, 133, 167, 253}
      [] path = PathOf(d2, s1) -> {34, 107, 142, 209, 218}
      [] path = PathOf(d2, s2) -> {76, 158, 189, 204}

\* the serialized filter: varuint(byte-length) | bytes | varuint(m) | varuint(k)
BloomBytes == BytesLabelled(<<"bloom", <<>>, <<>>>>)

BloomBitset ==
    SubSeq(BloomBytes, 1 + VarU32Len(BloomBytes, 1),
           VarU32Len(BloomBytes, 1) + ReadVarU32(BloomBytes, 1))

\* bit i of the bitset, packed LSB-first: byte i / 8, bit i mod 8
BloomBit(i) ==
    /\ (i \div 8) + 1 \in DOMAIN BloomBitset
    /\ (BloomBitset[(i \div 8) + 1] \div (2 ^ (i % 8))) % 2 = 1

\* contains(path) of the filter read from the file
BloomContains(path) == \A i \in MurmurBits(path) : BloomBit(i)

\* C15: the bloom filter in the file of a completed _flush contains the path
\* device.measurement of every chunk of the file.
C15_BloomContainsPaths ==
    (Completed /\ lastCall.op = "flush" /\ ~file.rejected) =>
        \A ch \in Chunks : BloomContains(PathOf(ch.device_id, ch.measurement_id))

\* a completed _flush of the chunks of d1.s1 and d1.s2 whose filter contains
\* d1.s1 and not d1.s2
C15_Witness ==
    /\ Completed
    /\ lastCall.op = "flush"
    /\ ~file.rejected
    /\ \E ch \in Chunks : ch.device_id = d1 /\ ch.measurement_id = s2
    /\ BloomContains(PathOf(d1, s1))
    /\ ~BloomContains(PathOf(d1, s2))
    /\ \A i \in MurmurBits(PathOf(d1, s2)) : ~BloomBit(i)

\* ---------------------------------------------------------------------------
\* write_str on strings of every length up to MaxStr.

MaxStr == 70

\* the strings of one repeated letter, 'd' or 's'
Strings == {[i \in 1..n |-> c] : n \in 0..MaxStr, c \in {100, 115}}

InitStr ==
    /\ schema = <<>>
    /\ group_writers = <<>>
    /\ chunk_group_metadata = <<>>
    /\ timeseries_metadata_map = <<>>
    /\ file = WriteWrapper_new(NoFault)
    /\ calls = 0
    /\ flushes = 0
    /\ lastCall = [op |-> "new"]
    /\ offsets = [meta_offset |-> 0, footer_index |-> 0]
    /\ pc = "ready"

\* write_str(file, s) on a new WriteWrapper
WriteStr(s) ==
    /\ file' = write_str(WriteWrapper_new(NoFault), s, <<"str", s, <<>>>>)
    /\ lastCall' = [op |-> "write_str", s |-> s]
    /\ pc' = "written"
    /\ UNCHANGED <<schema, group_writers, chunk_group_metadata,
                   timeseries_metadata_map, calls, flushes, offsets>>

NextStr ==
    /\ pc = "ready"
    /\ \E s \in Strings : WriteStr(s)

SpecStr == InitStr /\ [][NextStr]_vars

\* zig-zag of a signed 32-bit n: (n << 1) ^ (n >> 31)
ZigZag(n) == IF n >= 0 THEN 2 * n ELSE -2 * n - 1

\* C16: write_str(file, s) writes the zig-zag varint of the length of s in
\* bytes and then the bytes of s, whatever the length.
C16_StrLengthPrefix ==
    lastCall.op = "write_str" =>
        file.writer = VarU32(ZigZag(Len(lastCall.s))) \o lastCall.s

\* write_str of a string of three bytes, which wrote the prefix 5
C16_Witness ==
    /\ lastCall.op = "write_str"
    /\ Len(lastCall.s) = 3
    /\ file.writer = <<5>> \o lastCall.s

\* ---------------------------------------------------------------------------
\* MetadataIndexNode::generate_root_node, one turn of its for loop at a time,
\* on the queues the loop of construct_metadata_index leaves for one device.
\* lastCall holds the locals of the call: the queue, the current node, i and
\* queue_size, and as history the leaves that were queued at the start and
\* the nodes generate_root_node has pushed (parents).

MaxOver == 2

\* the name of the i-th measurement of a device: three letters from '0' on
Name(i) == <<48 + (i \div 4096), 48 + ((i \div 64) % 64), 48 + (i % 64)>>

\* the TimeseriesMetadata flush_metadata_index makes of the one chunk of the
\* i-th measurement, a chunk of one Int32 sample with its header at `at`
Tsm(i, at) ==
    [time_series_metadata_type |-> 0,
     chunk_meta_data_list_data_size |-> 8,
     measurement_id |-> Name(i),
     data_type |-> INT32_TAG,
     statistics |-> Statistics_update(Statistics_new, 1, 13),
     buffer |-> BE(at, 8)]

\* the number of bytes TimeSeriesMetadata::serialize writes for it
TsmLen ==
    get_position(TimeSeriesMetadata_serialize(WriteWrapper_new(NoFault), Tsm(1, 0),
                                              <<"tsmeta", d1, Name(1)>>))

\* the k-th leaf of n that the loop of construct_metadata_index queues when
\* the TimeseriesMetadata start at position `from`: the leaves are full but
\* for the last, which has one entry
QueuedLeaf(k, n, from) ==
    LET first == (k - 1) * GET_MAX_DEGREE_OF_INDEX_NODE
        count == IF k < n THEN GET_MAX_DEGREE_OF_INDEX_NODE ELSE 1
    IN  [children |-> [j \in 1..count |->
                          [name |-> Name(first + j),
                           offset |-> from + (first + j - 1) * TsmLen]],
         end_offset |-> from + (IF k < n THEN first + count ELSE first + 1) * TsmLen,
         node_type |-> "LeafMeasurement"]

\* the locals of generate_root_node(queue, file, node_type) at its start
RootCall(queue, node_type) ==
    [op |-> "generate_root_node", queue |-> queue,
     current |-> MetadataIndexNode_new(node_type), i |-> 0,
     queue_size |-> Len(queue), node_type |-> node_type,
     leaves |-> queue, parents |-> <<>>, root |-> None]

\* the numbers of leaves in the queue
QueueSizes ==
    {1, 2} \cup (GET_MAX_DEGREE_OF_INDEX_NODE..(GET_MAX_DEGREE_OF_INDEX_NODE + MaxOver))

\* the file is at the position after the magic, the version and the marker;
\* generate_root_node takes from it its position and nothing else, and from
\* the nodes of the queue their first name
InitRoot ==
    /\ schema = <<>>
    /\ group_writers = <<>>
    /\ chunk_group_metadata = <<>>
    /\ timeseries_metadata_map = <<>>
    /\ file = write_all(write_expect(write_expect(WriteWrapper_new(NoFault), MAGIC,
                                                  <<"magic", <<>>, <<>>>>),
                                     VERSION, <<"version", <<>>, <<>>>>),
                        <<2>>, <<"meta_marker", <<>>, <<>>>>)
    /\ calls = 0
    /\ flushes = 0
    /\ \E n \in QueueSizes :
           lastCall = RootCall([k \in 1..n |-> QueuedLeaf(k, n, 8)],
                               "InternalMeasurement")
    /\ offsets = [meta_offset |-> 7, footer_index |-> 0]
    /\ pc = "root"

\* one turn of the for loop
RootStep ==
    /\ pc = "root"
    /\ lastCall.queue_size # 1
    /\ lastCall.i < lastCall.queue_size
    /\ LET r == root_node_loop(lastCall.queue, lastCall.current, file,
                               lastCall.i, lastCall.i + 1)
       IN  /\ lastCall' = [lastCall EXCEPT
                              !.queue = r.queue,
                              !.current = r.current,
                              !.i = @ + 1,
                              !.parents = IF r.panic THEN @
                                          ELSE @ \o SubSeq(r.queue, Len(lastCall.queue),
                                                           Len(r.queue))]
           /\ pc' = IF r.panic THEN "panicked" ELSE "root"
    /\ UNCHANGED <<schema, group_writers, chunk_group_metadata,
                   timeseries_metadata_map, file, calls, flushes, offsets>>

\* the end of a turn of the while loop
RootPassEnd ==
    /\ pc = "root"
    /\ lastCall.queue_size # 1
    /\ lastCall.i = lastCall.queue_size
    /\ LET queue == add_current_index_node_to_queue(lastCall.current, lastCall.queue, file)
       IN  lastCall' = [lastCall EXCEPT
                           !.queue = queue,
                           !.current = MetadataIndexNode_new(lastCall.node_type),
                           !.queue_size = Len(queue),
                           !.i = 0,
                           !.parents = Append(@, queue[Len(queue)])]
    /\ UNCHANGED <<schema, group_writers, chunk_group_metadata,
                   timeseries_metadata_map, file, calls, flushes, offsets, pc>>

\* return measurement_metadata_index_queue.get(0).unwrap().clone()
RootReturn ==
    /\ pc = "root"
    /\ lastCall.queue_size = 1
    /\ lastCall' = [lastCall EXCEPT !.root = Some(lastCall.queue[1])]
    /\ pc' = "device"
    /\ UNCHANGED <<schema, group_writers, chunk_group_metadata,
                   timeseries_metadata_map, file, calls, flushes, offsets>>

NextRoot == RootStep \/ RootPassEnd \/ RootReturn

SpecRoot == InitRoot /\ [][NextRoot]_vars

\* the index nodes of the call: the queued leaves, the nodes
\* generate_root_node pushed, and the root it returned
IndexNodes ==
    Range(lastCall.leaves) \cup Range(lastCall.parents) \cup Range(lastCall.root)

\* C18: no index node, leaf or parent made by generate_root_node, has more
\* than B = 256 children.
C18_AtMostBChildren ==
    lastCall.op = "generate_root_node" =>
        \A node \in IndexNodes : Len(node.children) <= GET_MAX_DEGREE_OF_INDEX_NODE

\* generate_root_node has returned a root over a parent of 257 children
C18_Witness ==
    /\ lastCall.op = "generate_root_node"
    /\ pc = "device"
    /\ Len(lastCall.leaves) = GET_MAX_DEGREE_OF_INDEX_NODE + 1
    /\ \E p \in DOMAIN lastCall.parents :
           /\ Len(lastCall.parents[p].children) = GET_MAX_DEGREE_OF_INDEX_NODE + 1
           /\ lastCall.parents[p].node_type = "InternalMeasurement"
    /\ Len(Unwrap(lastCall.root).children) = 2

\* ---------------------------------------------------------------------------
\* MetadataIndexNode::construct_metadata_index for one device of n
\* measurements, one turn of its loops at a time, and the footer after it.
\* The file starts at the position after the magic, the version and the
\* marker 2; the chunk groups before the marker are left out.

MaxSmall == 12

\* the numbers of measurements of the device
MeasurementCounts ==
    (1..MaxSmall)
    \cup ((GET_MAX_DEGREE_OF_INDEX_NODE + 1)..(GET_MAX_DEGREE_OF_INDEX_NODE + MaxOver))

\* the file after the magic, the version and the marker 2
MarkedFile ==
    write_all(write_expect(write_expect(WriteWrapper_new(NoFault), MAGIC,
                                        <<"magic", <<>>, <<>>>>),
                           VERSION, <<"version", <<>>, <<>>>>),
              <<2>>, <<"meta_marker", <<>>, <<>>>>)

\* what TimeSeriesMetadata::serialize writes, to an empty file, for the first
\* measurement; for the others the three bytes of the name differ
TsmFile ==
    TimeSeriesMetadata_serialize(WriteWrapper_new(NoFault), Tsm(1, 7),
                                 <<"tsmeta", d1, Name(1)>>)

\* byte q of the TimeseriesMetadata of the j-th measurement
TsmByte(j, q) == IF q \in 3..5 THEN Name(j)[q - 2] ELSE TsmFile.writer[q]

\* the file after k turns of the loop over list_metadata: MarkedFile and the
\* TimeseriesMetadata of the first k measurements
IndexFile(k) ==
    LET from == get_position(MarkedFile)
        size == from + k * TsmLen
    IN  [MarkedFile EXCEPT
            !.position = size,
            !.writer = [p \in 1..size |->
                           IF p <= from THEN MarkedFile.writer[p]
                           ELSE TsmByte(((p - from - 1) \div TsmLen) + 1,
                                        ((p - from - 1) % TsmLen) + 1)],
            !.labels = [p \in 1..size |->
                           IF p <= from THEN MarkedFile.labels[p]
                           ELSE <<"tsmeta", d1, Name(((p - from - 1) \div TsmLen) + 1)>>],
            !.offered = @ \o [j \in 1..k |-> <<"tsmeta", d1, Name(j)>>],
            !.ncalls = @ + k * TsmFile.ncalls,
            !.last = IF k = 0 THEN @ ELSE TsmFile.last]

\* the locals of construct_metadata_index after k turns, k up to B, of its
\* loop over the list_metadata of `device`
LeafCall(device, k) ==
    [op |-> "construct_metadata_index", device |-> device, queue |-> <<>>,
     current |-> [MetadataIndexNode_new("LeafMeasurement") EXCEPT
                     !.children = [j \in 1..k |->
                                      [name |-> Name(j),
                                       offset |-> get_position(MarkedFile)
                                                  + (j - 1) * TsmLen]]],
     i |-> k]

\* the lists of up to MaxSmall measurements start at the first turn of the
\* loop, the longer ones after its first B turns
InitIndex ==
    /\ schema = <<>>
    /\ group_writers = <<>>
    /\ chunk_group_metadata = <<>>
    /\ \E n \in MeasurementCounts :
           /\ timeseries_metadata_map = (d1 :> [i \in 1..n |-> Tsm(i, 7)])
           /\ file = IndexFile(IF n > GET_MAX_DEGREE_OF_INDEX_NODE
                               THEN GET_MAX_DEGREE_OF_INDEX_NODE ELSE 0)
           /\ lastCall = LeafCall(d1, IF n > GET_MAX_DEGREE_OF_INDEX_NODE
                                      THEN GET_MAX_DEGREE_OF_INDEX_NODE ELSE 0)
    /\ calls = 0
    /\ flushes = 0
    /\ offsets = [meta_offset |-> Len(MAGIC) + Len(VERSION), footer_index |-> 0]
    /\ pc = "leaf"

\* in the first B turns of the loop the file and the locals are those the
\* long lists start from
IndexFileIsLoopState ==
    (pc = "leaf" /\ lastCall.i <= GET_MAX_DEGREE_OF_INDEX_NODE) =>
        /\ file = IndexFile(lastCall.i)
        /\ lastCall = LeafCall(d1, lastCall.i)

\* one turn of the loop over list_metadata
LeafStep ==
    /\ pc = "leaf"
    /\ lastCall.i < Len(timeseries_metadata_map[lastCall.device])
    /\ LET r == leaf_loop(file, lastCall.queue, lastCall.current,
                          SubSeq(timeseries_metadata_map[lastCall.device], 1,
                                 lastCall.i + 1),
                          lastCall.i, lastCall.device)
       IN  /\ file' = r.f
           /\ lastCall' = [lastCall EXCEPT !.queue = r.queue, !.current = r.current,
                                           !.i = @ + 1]
    /\ UNCHANGED <<schema, group_writers, chunk_group_metadata,
                   timeseries_metadata_map, calls, flushes, offsets, pc>>

\* after the loop: the current node is queued and generate_root_node called
LeafEnd ==
    /\ pc = "leaf"
    /\ lastCall.i = Len(timeseries_metadata_map[lastCall.device])
    /\ lastCall' = RootCall(add_current_index_node_to_queue(lastCall.current,
                                                            lastCall.queue, file),
                            "InternalMeasurement")
    /\ pc' = "root"
    /\ UNCHANGED <<schema, group_writers, chunk_group_metadata,
                   timeseries_metadata_map, file, calls, flushes, offsets>>

\* the state after the device index c and the footer e
IndexDone(c, e) ==
    /\ file' = e.f
    /\ offsets' = [meta_offset |-> e.meta_offset, footer_index |-> e.footer_index]
    /\ lastCall' = [op |-> "construct_metadata_index", leaves |-> lastCall.leaves,
                    parents |-> lastCall.parents, root |-> lastCall.root,
                    node |-> c.node]
    /\ pc' = "done"
    /\ UNCHANGED <<schema, group_writers, chunk_group_metadata,
                   timeseries_metadata_map, calls, flushes>>

\* c is what the rest of construct_metadata_index gave
DeviceIndexFooter(c) ==
    IndexDone(c, flush_end(flush_footer(c, offsets.meta_offset), group_writers,
                           chunk_group_metadata, timeseries_metadata_map,
                           offsets.meta_offset))

\* the rest of construct_metadata_index, with the root of the device in
\* device_metadata_index_map, and the rest of _flush
DeviceIndex ==
    /\ pc = "device"
    /\ DeviceIndexFooter(construct_device_index(
                             [f |-> file, map |-> (d1 :> Unwrap(lastCall.root))],
                             <<d1>>))

NextIndex ==
    \/ LeafStep
    \/ LeafEnd
    \/ RootStep
    \/ RootPassEnd
    \/ RootReturn
    \/ DeviceIndex

SpecIndex == InitIndex /\ [][NextIndex]_vars

\* the first bytes MetadataIndexNode::serialize writes for node: the number
\* of its children and the name of the first
NodeHead(node) ==
    write_str(write_var_u32(Len(node.children), WriteWrapper_new(NoFault),
                            <<"index_node", <<>>, <<>>>>),
              node.children[1].name, <<"index_node", <<>>, <<>>>>).writer

\* the bytes of the file from offset on begin the serialized node
NodeStartsAt(offset, node) ==
    /\ offset + Len(NodeHead(node)) <= Len(file.writer)
    /\ SubSeq(file.writer, offset + 1, offset + Len(NodeHead(node))) = NodeHead(node)

\* the TimeseriesMetadata of device.name begins at offset
TsmStartsAt(offset, device, name) ==
    /\ offset + 1 \in DOMAIN file.labels
    /\ file.labels[offset + 1] = <<"tsmeta", device, name>>
    /\ file.labels[offset] # <<"tsmeta", device, name>>

\* the parents of the call: the InternalMeasurement nodes generate_root_node
\* pushed or returned
InternalNodes ==
    {node \in Range(lastCall.parents) \cup Range(lastCall.root) :
        node.node_type = "InternalMeasurement"}

\* C17: once the index and the footer are written, every offset in them is
\* the position where the record it refers to begins: meta_offset the marker
\* 2, the entries of a leaf the TimeseriesMetadata of their measurements, the
\* entries of a parent the serialized child nodes, and the entry of the
\* device in the LeafDevice node the root of the device.
C17_OffsetsAreRecordStarts ==
    (pc = "done" /\ lastCall.op = "construct_metadata_index") =>
        /\ file.writer[offsets.meta_offset + 1] = 2
        /\ file.labels[offsets.meta_offset + 1][1] = "meta_marker"
        /\ \A leaf \in Range(lastCall.leaves) :
               \A e \in Range(leaf.children) : TsmStartsAt(e.offset, d1, e.name)
        /\ \A parent \in InternalNodes :
               \A e \in Range(parent.children) :
                   \E child \in Range(lastCall.leaves) \cup Range(lastCall.parents) :
                       /\ child.children[1].name = e.name
                       /\ NodeStartsAt(e.offset, child)
        /\ \A e \in Range(lastCall.node.children) :
               e.name = d1 /\ NodeStartsAt(e.offset, Unwrap(lastCall.root))

\* the index of 257 measurements is written: both entries of the root have
\* the offset of the root itself
C17_Witness ==
    /\ pc = "done"
    /\ lastCall.op = "construct_metadata_index"
    /\ Len(timeseries_metadata_map[d1]) = GET_MAX_DEGREE_OF_INDEX_NODE + 1
    /\ Len(lastCall.leaves) = 2
    /\ Len(Unwrap(lastCall.root).children) = 2
    /\ Unwrap(lastCall.root).children[1].offset = lastCall.node.children[1].offset
    /\ Unwrap(lastCall.root).children[2].offset = lastCall.node.children[1].offset
    /\ NodeStartsAt(lastCall.node.children[1].offset, Unwrap(lastCall.root))
    /\ ~NodeStartsAt(Unwrap(lastCall.root).children[1].offset, lastCall.leaves[1])

\* C19: generate_root_node returns with one node left in the queue, the
\* root; for a queue of one leaf the root is that leaf, and for a longer one
\* it is an InternalMeasurement node, and once the index is written every
\* queued leaf begins at the offset of an entry of the root or of a parent
\* under it.
C19_OneRootOverLeaves ==
    /\ (pc = "device" /\ lastCall.op = "generate_root_node") =>
           /\ Len(lastCall.queue) = 1
           /\ lastCall.root = Some(lastCall.queue[1])
           /\ Len(lastCall.leaves) = 1 => lastCall.root = Some(lastCall.leaves[1])
           /\ Len(lastCall.leaves) > 1 =>
                  Unwrap(lastCall.root).node_type = "InternalMeasurement"
    /\ (pc = "done" /\ lastCall.op = "construct_metadata_index"
        /\ Len(lastCall.leaves) > 1) =>
           \A leaf \in Range(lastCall.leaves) :
               \E parent \in InternalNodes :
                   \E e \in Range(parent.children) : NodeStartsAt(e.offset, leaf)

\* the index of 257 measurements is written, and of its nodes only the root
\* of two entries is in the file
C19_Witness ==
    /\ pc = "done"
    /\ lastCall.op = "construct_metadata_index"
    /\ Len(lastCall.leaves) = 2
    /\ Unwrap(lastCall.root).node_type = "InternalMeasurement"
    /\ Cardinality(Positions("index_node"))
           = get_position(MetadataIndexNode_serialize(WriteWrapper_new(NoFault),
                                                      Unwrap(lastCall.root),
                                                      <<"index_node", d1, <<>>>>))
    /\ \A leaf \in Range(lastCall.leaves) :
           \A e \in Range(Unwrap(lastCall.root).children) : ~NodeStartsAt(e.offset, leaf)

\* the steps are the loops: the root RootReturn leaves is the one
\* generate_root_node gives for the queued leaves, and for a list that
\* started at its first turn the queue of leaves is the one the whole loop
\* over list_metadata gives
StepsAreTheLoops ==
    (pc = "device" /\ lastCall.op = "generate_root_node"
     /\ Len(lastCall.leaves) <= MaxOver) =>
        /\ lastCall.root
               = generate_root_node(lastCall.leaves, file, lastCall.node_type)
        /\ (timeseries_metadata_map # <<>>
            /\ Len(timeseries_metadata_map[d1]) <= MaxOver + 2) =>
               LET r == leaf_loop(MarkedFile, <<>>,
                                  MetadataIndexNode_new("LeafMeasurement"),
                                  timeseries_metadata_map[d1], 0, d1)
               IN  /\ r.f = file
                   /\ lastCall.leaves
                          = add_current_index_node_to_queue(r.current, r.queue, r.f)

\* generate_root_node with every step that can be taken taken in the end
FairSpecRoot == SpecRoot /\ WF_vars(NextRoot)

\* generate_root_node returns
RootReturns == <>(pc = "device")

\* ---------------------------------------------------------------------------
\* TsFileWriter on a schema whose device paths have a '.'.

\* "root.d1", "root.d2"
root_d1 == <<114, 111, 111, 116, DOT>> \o d1
root_d2 == <<114, 111, 111, 116, DOT>> \o d2

DottedSchema == <<Device(root_d1, <<s1>>), Device(root_d2, <<s1>>)>>

InitDotted ==
    /\ schema = DottedSchema
    /\ \E sch \in IterationOrders(schema) : group_writers = TsFileWriter_new(sch)
    /\ chunk_group_metadata = <<>>
    /\ timeseries_metadata_map = <<>>
    /\ file = WriteWrapper_new(NoFault)
    /\ calls = 0
    /\ flushes = 0
    /\ lastCall = NoCall
    /\ offsets = [meta_offset |-> 0, footer_index |-> 0]
    /\ pc = "ready"

NextDotted ==
    \/ \E device \in {root_d1, root_d2}, timestamp \in Timestamps,
          value \in {INT(13), INT(14)} :
          Write(device, s1, timestamp, value)
    \/ \E order0 \in Orders(PathsOf(group_writers)),
          order1 \in Orders(DeviceIdsOf(timeseries_metadata_map, group_writers)),
          order2 \in Orders(DeviceIdsOf(timeseries_metadata_map, group_writers)) :
          Flush(NoFault, order0, order1, order2)

SpecDotted == InitDotted /\ [][NextDotted]_vars

\* the entries a reader takes from the bytes of an index node, n of them from
\* index i on: the name after its length byte, and the offset
RECURSIVE ReadEntries(_, _, _)
ReadEntries(bytes, i, n) ==
    IF n = 0 THEN <<>>
    ELSE
        LET len == bytes[i] - 2
        IN  <<[name |-> SubSeq(bytes, i + 1, i + len),
               offset |-> FromBE(SubSeq(bytes, i + len + 1, i + len + 8))]>>
            \o ReadEntries(bytes, i + len + 9, n - 1)

\* the root node of the footer, and its entries
RootBytes == BytesLabelled(<<"root_node", <<>>, <<>>>>)

RootEntries ==
    ReadEntries(RootBytes, 1 + VarU32Len(RootBytes, 1), ReadVarU32(RootBytes, 1))

\* the devices of the chunk groups of the last _flush
DevicesWritten ==
    {chunk_group_metadata[g].device_id : g \in DOMAIN chunk_group_metadata}

\* C20: in the file of a completed _flush of up to B devices, the root node
\* of the footer is a LeafDevice node with one entry for each device, under
\* the whole path of the device, and the offset of the entry is the position
\* where the index node of the device's measurements begins.
C20_OneEntryPerDevice ==
    (Completed /\ lastCall.op = "flush" /\ ~file.rejected
     /\ Cardinality(DevicesWritten) <= GET_MAX_DEGREE_OF_INDEX_NODE) =>
        /\ RootBytes[Len(RootBytes)] = NodeTypeByte("LeafDevice")
        /\ Len(RootEntries) = Cardinality(DevicesWritten)
        /\ {e.name : e \in Range(RootEntries)} = DevicesWritten
        /\ \A e \in Range(RootEntries) :
               LET at == {p \in DOMAIN file.labels :
                             file.labels[p] = <<"index_node", e.name, <<>>>>}
               IN  /\ at # {}
                   /\ \A p \in at : e.offset + 1 <= p
                   /\ e.offset + 1 \in at

\* a completed _flush of the chunks of root.d1 and root.d2 whose root node
\* has the one entry "root"
C20_Witness ==
    /\ Completed
    /\ lastCall.op = "flush"
    /\ ~file.rejected
    /\ DevicesWritten = {root_d1, root_d2}
    /\ Len(RootEntries) = 1
    /\ RootEntries[1].name = <<114, 111, 111, 116>>

\* ---------------------------------------------------------------------------
\* The statistics of a chunk and of its TimeseriesMetadata.

\* the ChunkMetadata of the path device.measurement_id in chunk_group_metadata
ChunkMetadataOf(device, measurement_id) ==
    {cm \in UNION {Range(chunk_group_metadata[g].chunk_metadata) :
                      g \in {h \in DOMAIN chunk_group_metadata :
                                chunk_group_metadata[h].device_id = device}} :
        cm.measurement_id = measurement_id}

\* the TimeseriesMetadata record of device.measurement_id in the file
TsmBytes(device, measurement_id) ==
    BytesLabelled(<<"tsmeta", device, measurement_id>>)

WriteWrapper_flush(f) ==
    IF Halted(f) THEN f
    ELSE [f EXCEPT !.offered = Append(@, <<"flush", <<>>, <<>>>>)]

\* the calls of flush on the sink of the last _flush
FlushCalls == Len(Offered("flush"))

\* C22: in a _flush that returns, flush is called on the sink once, and the
\* call is the last one on the sink, after the writes of the trailing magic.
C22_SinkFlushedOnce ==
    (Completed /\ lastCall.op = "flush" /\ ~Halted(file)) =>
        /\ FlushCalls = 1
        /\ Len(file.offered) >= 2
        /\ file.offered[Len(file.offered)][1] = "flush"
        /\ file.offered[Len(file.offered) - 1][1] = "tail_magic"

\* a _flush that returned Ok(()) on a sink that took every byte, the trailing
\* magic written last, with no call of flush on the sink
C22_Witness ==
    /\ Completed
    /\ lastCall.op = "flush"
    /\ lastCall.result = "Ok"
    /\ ~Halted(file)
    /\ ~file.rejected
    /\ Offered("magic") # <<>>
    /\ file.offered[Len(file.offered)][1] = "tail_magic"
    /\ SubSeq(file.writer, Len(file.writer) - Len(MAGIC) + 1, Len(file.writer)) = MAGIC
    /\ FlushCalls = 0

\* ---------------------------------------------------------------------------
\* MetadataIndexNode::construct_metadata_index over many devices, one turn of
\* its loop over device_timeseries_metadata_map at a time, and the rest of
\* _flush.  Each device has the one measurement Name(1).  The file starts at
\* the position after the magic, the version and the marker 2.

\* the name of the i-th device: 'd' and three letters
Dev(i) == <<100>> \o Name(i)

\* the numbers of devices with data
DeviceCounts ==
    (1..MaxSmall)
    \cup ((GET_MAX_DEGREE_OF_INDEX_NODE + 1)..(GET_MAX_DEGREE_OF_INDEX_NODE + MaxOver))

\* the file after k turns of the loop over the devices Dev(1), Dev(2), ...:
\* MarkedFile and the TimeseriesMetadata of the measurement of each
DevicesFile(k) ==
    LET from == get_position(MarkedFile)
        size == from + k * TsmLen
    IN  [MarkedFile EXCEPT
            !.position = size,
            !.writer = [p \in 1..size |->
                           IF p <= from THEN MarkedFile.writer[p]
                           ELSE TsmByte(1, ((p - from - 1) % TsmLen) + 1)],
            !.labels = [p \in 1..size |->
                           IF p <= from THEN MarkedFile.labels[p]
                           ELSE <<"tsmeta", Dev(((p - from - 1) \div TsmLen) + 1),
                                  Name(1)>>],
            !.offered = @ \o [j \in 1..k |-> <<"tsmeta", Dev(j), Name(1)>>],
            !.ncalls = @ + k * TsmFile.ncalls,
            !.last = IF k = 0 THEN @ ELSE TsmFile.last]

\* device_metadata_index_map after those k turns: for each device the leaf
\* of its measurement, which generate_root_node returns as it is
DevicesMap(k) ==
    [device \in {Dev(j) : j \in 1..k} |->
        LET j == CHOOSE x \in 1..k : Dev(x) = device
        IN  [children |-> <<[name |-> Name(1),
                             offset |-> get_position(MarkedFile) + (j - 1) * TsmLen]>>,
             end_offset |-> get_position(MarkedFile) + j * TsmLen,
             node_type |-> "LeafMeasurement"]]

\* the locals of construct_metadata_index after k turns of its loop over the
\* devices, which it takes in the order `order`
DevicesCall(order, k) ==
    [op |-> "construct_metadata_index", order |-> order, i |-> k,
     map |-> DevicesMap(k), node |-> MetadataIndexNode_new("LeafDevice")]

\* up to MaxSmall devices start at the first turn of the loop, in the order
\* of their names or against it; more start after its first B turns
InitDevices ==
    /\ schema = <<>>
    /\ group_writers = <<>>
    /\ chunk_group_metadata = <<>>
    /\ \E n \in DeviceCounts :
           /\ timeseries_metadata_map = [device \in {Dev(j) : j \in 1..n} |-> <<Tsm(1, 7)>>]
           /\ IF n > GET_MAX_DEGREE_OF_INDEX_NODE
              THEN /\ file = DevicesFile(GET_MAX_DEGREE_OF_INDEX_NODE)
                   /\ lastCall = DevicesCall([j \in 1..n |-> Dev(j)],
                                             GET_MAX_DEGREE_OF_INDEX_NODE)
              ELSE /\ file = DevicesFile(0)
                   /\ \E order \in {[j \in 1..n |-> Dev(j)],
                                    [j \in 1..n |-> Dev(n + 1 - j)]} :
                          lastCall = DevicesCall(order, 0)
    /\ calls = 0
    /\ flushes = 0
    /\ offsets = [meta_offset |-> Len(MAGIC) + Len(VERSION), footer_index |-> 0]
    /\ pc = "devices"

\* in the first B turns of the loop over the devices in the order of their
\* names, the file and the map are those the long runs start from
DevicesFileIsLoopState ==
    (pc = "devices" /\ lastCall.i <= GET_MAX_DEGREE_OF_INDEX_NODE
     /\ lastCall.order[1] = Dev(1)) =>
        /\ file = DevicesFile(lastCall.i)
        /\ lastCall.map = DevicesMap(lastCall.i)

\* one turn of the loop over device_timeseries_metadata_map
DeviceStep ==
    /\ pc = "devices"
    /\ lastCall.i < Len(lastCall.order)
    /\ LET r == device_loop(file, timeseries_metadata_map,
                            <<lastCall.order[lastCall.i + 1]>>, 1, lastCall.map)
       IN  /\ file' = r.f
           /\ lastCall' = [lastCall EXCEPT !.map = r.map, !.i = @ + 1]
    /\ UNCHANGED <<schema, group_writers, chunk_group_metadata,
                   timeseries_metadata_map, calls, flushes, offsets, pc>>

\* the state after the device level c and the footer e
DevicesDone(c, e) ==
    /\ file' = e.f
    /\ offsets' = [meta_offset |-> e.meta_offset, footer_index |-> e.footer_index]
    /\ lastCall' = [lastCall EXCEPT !.node = c.node]
    /\ pc' = IF Halted(e.f) THEN "panicked" ELSE "done"
    /\ UNCHANGED <<schema, group_writers, chunk_group_metadata,
                   timeseries_metadata_map, calls, flushes>>

\* c is what the rest of construct_metadata_index gave
DevicesFooter(c) ==
    DevicesDone(c, flush_end(flush_footer(c, offsets.meta_offset), group_writers,
                             chunk_group_metadata, timeseries_metadata_map,
                             offsets.meta_offset))

\* the rest of construct_metadata_index, device_metadata_index_map iterated
\* in the order of the first loop or against it, and the rest of _flush
DeviceLevel ==
    /\ pc = "devices"
    /\ lastCall.i = Len(lastCall.order)
    /\ \E order2 \in {lastCall.order,
                      [j \in 1..Len(lastCall.order) |->
                          lastCall.order[Len(lastCall.order) + 1 - j]]} :
           DevicesFooter(construct_device_index([f |-> file, map |-> lastCall.map],
                                                order2))

NextDevices ==
    \/ DeviceStep
    \/ DeviceLevel

SpecDevices == InitDevices /\ [][NextDevices]_vars

\* C23: with more than B devices with data, construct_metadata_index and the
\* rest of _flush run to their end: the root written in the footer is an
\* InternalDevice node (type byte 0) of at most B entries, over the LeafDevice
\* nodes, and the trailing magic follows.
C23_ManyDevicesIndexed ==
    (lastCall.op = "construct_metadata_index" /\ pc # "devices"
     /\ Cardinality(DOMAIN timeseries_metadata_map) > GET_MAX_DEGREE_OF_INDEX_NODE) =>
        /\ pc = "done"
        /\ ~Halted(file)
        /\ RootBytes # <<>>
        /\ RootBytes[Len(RootBytes)] = 0
        /\ ReadVarU32(RootBytes, 1) \in 2..GET_MAX_DEGREE_OF_INDEX_NODE
        /\ Offered("tail_magic") # <<>>

\* B + 1 devices have gone through the first loop and their roots are in
\* device_metadata_index_map: construct_metadata_index panics, and the file
\* has no root node and no trailing magic
C23_Witness ==
    /\ pc = "panicked"
    /\ lastCall.op = "construct_metadata_index"
    /\ lastCall.i = GET_MAX_DEGREE_OF_INDEX_NODE + 1
    /\ Cardinality(DOMAIN lastCall.map) = GET_MAX_DEGREE_OF_INDEX_NODE + 1
    /\ file.panic = PANIC_NOT_IMPLEMENTED
    /\ RootBytes = <<>>
    /\ Offered("tail_magic") = <<>>

\* ---------------------------------------------------------------------------
\* The page writer of a serialized chunk.

\* the chunk writers serialize has run on, each with its device
SerializedChunkWriters ==
    {[device_id |-> group_writers[g].path, cw |-> group_writers[g].chunk_writers[c]] :
        <<g, c>> \in {gc \in (DOMAIN group_writers) \X (1..2) :
                         /\ gc[2] \in DOMAIN group_writers[gc[1]].chunk_writers
                         /\ IsSome(group_writers[gc[1]].chunk_writers[gc[2]]
                                       .offset_of_chunk_header)}}

\* what one call of prepare_buffer appends for the samples of page writer pw
PreparedOnce(pw) == PageWriter_prepare_buffer([pw EXCEPT !.buffer = <<>>]).buffer

\* C24: after a _flush that returns, every chunk writer that serialize has
\* emitted has no page writer (current_page_writer is None), so that a later
\* _flush has no page of it to prepare or to write again.
C24_PageReleased ==
    (Completed /\ lastCall.op = "flush") =>
        \A s \in SerializedChunkWriters : ~IsSome(s.cw.current_page_writer)

\* the second _flush of a writer, run after the first with no write between:
\* the page writer of a chunk is still there, its buffer has been prepared
\* twice, and the page of the chunk in the second file holds the body twice
C24_Witness ==
    /\ Completed
    /\ lastCall.op = "flush"
    /\ flushes = 2
    /\ ~file.rejected
    /\ \E s \in SerializedChunkWriters :
           /\ IsSome(s.cw.current_page_writer)
           /\ LET pw == Unwrap(s.cw.current_page_writer)
                  once == PreparedOnce(pw)
                  page == PageRegion([device_id |-> s.device_id,
                                      measurement_id |-> s.cw.measurement_id])
              IN  /\ once # <<>>
                  /\ pw.buffer = once \o once
                  /\ Len(page) = 2 + 2 * Len(once)
                  /\ SubSeq(page, 3, Len(page)) = once \o once

====
